---- MODULE Spec2Model ----
(***************************************************************************)
(* A model of package x509util: the certificate template (Certificate),    *)
(* its assembly into an x509.Certificate (GetCertificate and the Set       *)
(* methods), the hand-built subject alternative name extension             *)
(* (createSubjectAltNameExtension) and the template merger                 *)
(* (NewCertificate).                                                       *)
(*                                                                         *)
(* Go strings are modelled as sequences of one-character strings, so that  *)
(* splitting, lower-casing and parsing are computed and not assumed.       *)
(* DER output is modelled structurally: a GeneralName is a record holding  *)
(* its tag and its content, not its bytes.                                 *)
(***************************************************************************)
EXTENDS Integers, Sequences, FiniteSets, TLC

VARIABLES
    pc,        \* position of the program
    cr,        \* the certificate request handed to NewCertificate
    opts,      \* the arguments of the call: the options of NewCertificate, or the
               \* input of the method that a specification calls
    template,  \* the Certificate (or x509 template, Subject, KeyUsage) worked on
    ret,       \* what the call returned, as a pointer: <<>> is nil
    err,       \* the error the last call returned (NoErr when none)
    cert,      \* the x509.Certificate GetCertificate is filling
    idx,       \* index of the running loop of GetCertificate
    ext,       \* what createSubjectAltNameExtension returned (Nil before)
    signer,    \* the calls the external signer has received, in order
    mem        \* the backing arrays of the slices, by their address

vars == <<pc, cr, opts, template, ret, err, cert, idx, ext, signer, mem>>

Nil == "nil"
NoErr == "no error"

\* Op applied to the value of v, which is computed once
With(v, Op(_)) == CHOOSE result \in {Op(x) : x \in {v}} : TRUE

(***************************************************************************)
(* Characters and strings.                                                 *)
(***************************************************************************)
Digits == <<"0", "1", "2", "3", "4", "5", "6", "7", "8", "9">>
HexLetters == <<"a", "b", "c", "d", "e", "f">>
UpperLetters == <<"A", "B", "C", "D", "E", "F", "G", "H", "I", "J", "K", "L", "M",
                  "N", "O", "P", "Q", "R", "S", "T", "U", "V", "W", "X", "Y", "Z">>
LowerLetters == <<"a", "b", "c", "d", "e", "f", "g", "h", "i", "j", "k", "l", "m",
                  "n", "o", "p", "q", "r", "s", "t", "u", "v", "w", "x", "y", "z">>

Range(s) == {s[i] : i \in 1..Len(s)}

IsDigit(ch) == ch \in Range(Digits)
IsUpper(ch) == ch \in Range(UpperLetters)
IsLower(ch) == ch \in Range(LowerLetters)
IsLetter(ch) == IsUpper(ch) \/ IsLower(ch)

PosIn(s, ch) == CHOOSE i \in 1..Len(s) : s[i] = ch
DigitVal(ch) == PosIn(Digits, ch) - 1

\* strings.Index for a one-character separator; 0 when absent
IndexOf(s, ch) ==
    IF \E i \in 1..Len(s) : s[i] = ch
    THEN CHOOSE i \in 1..Len(s) : s[i] = ch /\ \A j \in 1..(i - 1) : s[j] # ch
    ELSE 0

\* strings.Contains for a one-character substring
Contains(s, ch) == IndexOf(s, ch) # 0

\* s[from:] of Go, from counted from 0
SliceFrom(s, from) == SubSeq(s, from + 1, Len(s))

\* strings.Split for a one-character separator
RECURSIVE Split(_, _)
Split(s, sep) ==
    With(IndexOf(s, sep), LAMBDA i :
        IF i = 0 THEN <<s>>
        ELSE With(SubSeq(s, i + 1, Len(s)), LAMBDA rest :
                <<SubSeq(s, 1, i - 1)>> \o Split(rest, sep)))

ToLowerChar(ch) == IF IsUpper(ch) THEN LowerLetters[PosIn(UpperLetters, ch)] ELSE ch

\* strings.ToLower
RECURSIVE ToLower(_)
ToLower(s) == IF s = <<>> THEN <<>> ELSE <<ToLowerChar(Head(s))>> \o ToLower(Tail(s))

\* strings.ReplaceAll(s, old, "") for a one-character old
RECURSIVE RemoveAll(_, _)
RemoveAll(s, ch) ==
    IF s = <<>> THEN <<>>
    ELSE (IF Head(s) = ch THEN <<>> ELSE <<Head(s)>>) \o RemoveAll(Tail(s), ch)

\* a conversion that keeps the underscores
lowerName(s) == ToLower(s)

convertName(s) == RemoveAll(ToLower(s), "_")

RECURSIVE Concat(_)
Concat(ss) == IF ss = <<>> THEN <<>> ELSE Head(ss) \o Concat(Tail(ss))

(***************************************************************************)
(* strconv.Atoi: an optional sign and decimal digits, in the range of a    *)
(* 64-bit int.  The value is kept as [neg, mag], mag the decimal digits    *)
(* without leading zeros, since it may exceed what TLC's integers hold.    *)
(***************************************************************************)
MaxInt64 == <<"9", "2", "2", "3", "3", "7", "2", "0", "3", "6",
              "8", "5", "4", "7", "7", "5", "8", "0", "7">>
MinInt64Mag == <<"9", "2", "2", "3", "3", "7", "2", "0", "3", "6",
                 "8", "5", "4", "7", "7", "5", "8", "0", "8">>

RECURSIVE StripZeros(_)
StripZeros(d) == IF Len(d) > 1 /\ Head(d) = "0" THEN StripZeros(Tail(d)) ELSE d

\* d <= e for digit strings of equal length
RECURSIVE DigitsLeq(_, _)
DigitsLeq(d, e) ==
    IF d = <<>> THEN TRUE
    ELSE IF DigitVal(Head(d)) < DigitVal(Head(e)) THEN TRUE
    ELSE IF DigitVal(Head(d)) > DigitVal(Head(e)) THEN FALSE
    ELSE DigitsLeq(Tail(d), Tail(e))

MagLeq(d, e) == Len(d) < Len(e) \/ (Len(d) = Len(e) /\ DigitsLeq(d, e))

AllDigits(s) == s # <<>> /\ \A i \in 1..Len(s) : IsDigit(s[i])

Atoi(s) ==
    LET signed == s # <<>> /\ s[1] \in {"+", "-"}
        neg == signed /\ s[1] = "-"
        body == IF signed THEN Tail(s) ELSE s
    IN  IF ~AllDigits(body) THEN [ok |-> FALSE]
        ELSE With(StripZeros(body), LAMBDA mag :
                IF ~MagLeq(mag, IF neg THEN MinInt64Mag ELSE MaxInt64) THEN [ok |-> FALSE]
                ELSE [ok |-> TRUE, neg |-> neg /\ mag # <<"0">>, mag |-> mag])

\* the number the first n digits of a short digit string denote
RECURSIVE DigitsToNatTo(_, _)
DigitsToNatTo(d, n) ==
    IF n = 0 THEN 0 ELSE DigitsToNatTo(d, n - 1) * 10 + DigitVal(d[n])

DigitsToNat(d) == DigitsToNatTo(d, Len(d))

(***************************************************************************)
(* parseObjectIdentifier: a dotted-decimal string; every component must    *)
(* parse as a non-negative integer and there is at least one component.    *)
(* Components are kept as numbers (the inputs of the model are short).     *)
(***************************************************************************)
RECURSIVE MapDigitsToNat(_)
MapDigitsToNat(parts) ==
    IF parts = <<>> THEN <<>>
    ELSE <<DigitsToNat(StripZeros(Head(parts)))>> \o MapDigitsToNat(Tail(parts))

parseObjectIdentifier(s) ==
    With(Split(s, "."), LAMBDA parts :
        IF \A i \in 1..Len(parts) : AllDigits(parts[i]) /\ Atoi(parts[i]).ok
        THEN [ok |-> TRUE, oid |-> MapDigitsToNat(parts)]
        ELSE [ok |-> FALSE])

(***************************************************************************)
(* net.IP: a sequence of 4 or 16 bytes; <<>> is the nil IP.  net.ParseIP   *)
(* is modelled for dotted-quad IPv4 and for IPv6 written as hexadecimal    *)
(* groups with at most one "::" (no embedded IPv4, no zone).               *)
(***************************************************************************)
IsHex(ch) == IsDigit(ch) \/ ToLowerChar(ch) \in Range(HexLetters)
HexVal(ch) == IF IsDigit(ch) THEN DigitVal(ch) ELSE 9 + PosIn(HexLetters, ToLowerChar(ch))

RECURSIVE HexToNatTo(_, _)
HexToNatTo(g, n) == IF n = 0 THEN 0 ELSE HexToNatTo(g, n - 1) * 16 + HexVal(g[n])

HexToNat(g) == HexToNatTo(g, Len(g))

RECURSIVE NatToDigits(_)
NatToDigits(n) ==
    IF n < 10 THEN <<Digits[n + 1]>> ELSE NatToDigits(n \div 10) \o <<Digits[(n % 10) + 1]>>

HexDigitOf(n) == IF n < 10 THEN Digits[n + 1] ELSE HexLetters[n - 9]

RECURSIVE NatToHex(_)
NatToHex(n) ==
    IF n < 16 THEN <<HexDigitOf(n)>> ELSE NatToHex(n \div 16) \o <<HexDigitOf(n % 16)>>

RECURSIVE Join(_, _)
Join(ss, sep) ==
    IF ss = <<>> THEN <<>>
    ELSE IF Len(ss) = 1 THEN ss[1]
    ELSE ss[1] \o <<sep>> \o Join(Tail(ss), sep)

v4InV6Prefix == <<0, 0, 0, 0, 0, 0, 0, 0, 0, 0, 255, 255>>

ValidOctet(p) ==
    /\ AllDigits(p)
    /\ Len(p) <= 3
    /\ (Len(p) > 1 => p[1] # "0")
    /\ DigitsToNat(p) <= 255

parseIPv4(s) ==
    With(Split(s, "."), LAMBDA parts :
        IF Len(parts) = 4 /\ \A i \in 1..4 : ValidOctet(parts[i])
        THEN v4InV6Prefix \o <<DigitsToNat(parts[1]), DigitsToNat(parts[2]),
                                DigitsToNat(parts[3]), DigitsToNat(parts[4])>>
        ELSE <<>>)

ValidGroup(g) == Len(g) \in 1..4 /\ \A i \in 1..Len(g) : IsHex(g[i])

RECURSIVE GroupBytes(_)
GroupBytes(gs) ==
    IF gs = <<>> THEN <<>>
    ELSE With(HexToNat(Head(gs)), LAMBDA v : <<v \div 256, v % 256>>) \o GroupBytes(Tail(gs))

RECURSIVE Zeros(_)
Zeros(n) == IF n <= 0 THEN <<>> ELSE <<0>> \o Zeros(n - 1)

\* position of the first "::", 0 when there is none
EllipsisAt(s) ==
    IF \E i \in 1..(Len(s) - 1) : s[i] = ":" /\ s[i + 1] = ":"
    THEN CHOOSE i \in 1..(Len(s) - 1) :
            /\ s[i] = ":" /\ s[i + 1] = ":"
            /\ \A j \in 1..(i - 1) : ~(s[j] = ":" /\ s[j + 1] = ":")
    ELSE 0

\* the groups left and right of the "::" at e (all of them left when e = 0)
groupsLeft(s, e) ==
    LET left == IF e = 0 THEN s ELSE SubSeq(s, 1, e - 1) IN
    IF left = <<>> THEN <<>> ELSE Split(left, ":")

groupsRight(s, e) ==
    LET right == IF e = 0 THEN <<>> ELSE SubSeq(s, e + 2, Len(s)) IN
    IF right = <<>> THEN <<>> ELSE Split(right, ":")

parseIPv6(s) ==
    With(EllipsisAt(s), LAMBDA e :
    With(groupsLeft(s, e), LAMBDA lg :
    With(groupsRight(s, e), LAMBDA rg :
        IF /\ \A i \in 1..Len(lg) : ValidGroup(lg[i])
           /\ \A i \in 1..Len(rg) : ValidGroup(rg[i])
           /\ IF e = 0 THEN Len(lg) = 8 ELSE Len(lg) + Len(rg) <= 7
        THEN GroupBytes(lg) \o Zeros(2 * (8 - Len(lg) - Len(rg))) \o GroupBytes(rg)
        ELSE <<>>)))

ParseIP(s) ==
    IF Contains(s, ":") THEN (IF Contains(s, ".") THEN <<>> ELSE parseIPv6(s))
    ELSE IF Contains(s, ".") THEN parseIPv4(s)
    ELSE <<>>

\* net.IP.To4: the 4-byte form of an IPv4 address, <<>> (nil) otherwise
To4(ip) ==
    IF Len(ip) = 4 THEN ip
    ELSE IF Len(ip) = 16 /\ SubSeq(ip, 1, 12) = v4InV6Prefix THEN SubSeq(ip, 13, 16)
    ELSE <<>>

IPGroups(ip) == [i \in 1..8 |-> ip[2 * i - 1] * 256 + ip[2 * i]]

\* number of zero groups from position i on
RECURSIVE ZeroRun(_, _)
ZeroRun(g, i) == IF i > Len(g) \/ g[i] # 0 THEN 0 ELSE 1 + ZeroRun(g, i + 1)

RECURSIVE MapNatToHex(_, _, _)
MapNatToHex(g, from, to) ==
    IF from > to THEN <<>> ELSE <<NatToHex(g[from])>> \o MapNatToHex(g, from + 1, to)

\* where the longest run of zero groups starts (the first of the longest)
longestZeroRun(g) ==
    With([i \in 1..8 |-> ZeroRun(g, i)], LAMBDA runs :
        CHOOSE i \in 1..8 :
            /\ \A j \in 1..8 : runs[j] <= runs[i]
            /\ \A j \in 1..(i - 1) : runs[j] < runs[i])

\* the text of a 16-byte address that is no IPv4 address
ipv6String(ip) ==
    With(IPGroups(ip), LAMBDA g :
    With(longestZeroRun(g), LAMBDA best :
    With(ZeroRun(g, best), LAMBDA run :
        IF run < 2 THEN Join(MapNatToHex(g, 1, 8), ":")
        ELSE Join(MapNatToHex(g, 1, best - 1), ":") \o <<":", ":">>
             \o Join(MapNatToHex(g, best + run, 8), ":"))))

\* net.IP.String
IPString(ip) ==
    IF Len(ip) = 0 THEN <<"<", "n", "i", "l", ">">>
    ELSE IF To4(ip) # <<>>
    THEN With(To4(ip), LAMBDA p :
            Join(<<NatToDigits(p[1]), NatToDigits(p[2]), NatToDigits(p[3]),
                   NatToDigits(p[4])>>, "."))
    ELSE IF Len(ip) # 16 THEN <<"?">>
    ELSE ipv6String(ip)

(***************************************************************************)
(* net/url: a URL is kept as its lower-cased scheme and the rest of the    *)
(* text.  url.Parse fails on a leading colon, on a colon in the first      *)
(* path segment of a URL without scheme, and on a space in the host.       *)
(***************************************************************************)
RECURSIVE getScheme(_, _)
getScheme(s, i) ==
    IF i > Len(s) THEN [err |-> FALSE, scheme |-> <<>>, rest |-> s]
    ELSE IF IsLetter(s[i]) THEN getScheme(s, i + 1)
    ELSE IF IsDigit(s[i]) \/ s[i] \in {"+", "-", "."}
    THEN (IF i = 1 THEN [err |-> FALSE, scheme |-> <<>>, rest |-> s] ELSE getScheme(s, i + 1))
    ELSE IF s[i] = ":"
    THEN (IF i = 1 THEN [err |-> TRUE]
          ELSE [err |-> FALSE, scheme |-> SubSeq(s, 1, i - 1), rest |-> SliceFrom(s, i)])
    ELSE [err |-> FALSE, scheme |-> <<>>, rest |-> s]

urlParse(s) ==
    With(getScheme(s, 1), LAMBDA g :
        IF g.err THEN [ok |-> FALSE]
        ELSE LET rest == g.rest
                 rooted == rest # <<>> /\ rest[1] = "/"
                 segment == Split(rest, "/")[1]
                 hasAuthority == Len(rest) >= 2 /\ rest[1] = "/" /\ rest[2] = "/"
                 authority == Split(SliceFrom(rest, 2), "/")[1]
             IN  IF ~rooted /\ g.scheme = <<>> /\ Contains(segment, ":") THEN [ok |-> FALSE]
                 ELSE IF hasAuthority /\ Contains(authority, " ") THEN [ok |-> FALSE]
                 ELSE [ok |-> TRUE, url |-> [Scheme |-> ToLower(g.scheme), Rest |-> rest]])

\* url.URL.String
URLString(u) == IF u.Scheme # <<>> THEN u.Scheme \o <<":">> \o u.Rest ELSE u.Rest

(***************************************************************************)
(* encoding/asn1: what the marshaller accepts.                             *)
(***************************************************************************)
NonASCII == {"U+00E9"}

isPrintable(ch) ==
    \/ IsLetter(ch)
    \/ IsDigit(ch)
    \/ ch \in {"'", "(", ")", "+", ",", "-", ".", "/", " ", ":", "=", "?", "*"}

makePrintableStringOK(s) == \A i \in 1..Len(s) : isPrintable(s[i])
makeIA5StringOK(s) == \A i \in 1..Len(s) : s[i] \notin NonASCII
makeNumericStringOK(s) == \A i \in 1..Len(s) : IsDigit(s[i]) \/ s[i] = " "

\* makeObjectIdentifier rejects what has no DER form
makeObjectIdentifierOK(oid) ==
    /\ Len(oid) >= 2
    /\ oid[1] <= 2
    /\ (oid[1] < 2 => oid[2] < 40)

(***************************************************************************)
(* Names used as SubjectAlternativeName types, and the GeneralName tags    *)
(* of RFC 5280.                                                            *)
(***************************************************************************)
AutoType == <<"a", "u", "t", "o">>
EmailType == <<"e", "m", "a", "i", "l">>
DNSType == <<"d", "n", "s">>
X400AddressType == <<"x", "4", "0", "0", "A", "d", "d", "r", "e", "s", "s">>
DirectoryNameType == <<"d", "n">>
EDIPartyNameType == <<"e", "d", "i", "P", "a", "r", "t", "y", "N", "a", "m", "e">>
URIType == <<"u", "r", "i">>
IPType == <<"i", "p">>
RegisteredIDType == <<"r", "e", "g", "i", "s", "t", "e", "r", "e", "d", "I", "D">>

nameTypeOtherName == 0
nameTypeEmail == 1
nameTypeDNS == 2
nameTypeURI == 6
nameTypeIP == 7
nameTypeRegisteredID == 8

subjectAlternativeNameOID == <<2, 5, 29, 17>>

\* the value-type prefixes of an OtherName value
S_int == <<"i", "n", "t">>
S_oid == <<"o", "i", "d">>
S_utf8 == <<"u", "t", "f", "8">>
S_ia5 == <<"i", "a", "5">>
S_numeric == <<"n", "u", "m", "e", "r", "i", "c">>
S_printable == <<"p", "r", "i", "n", "t", "a", "b", "l", "e">>

\* the errors createSubjectAltNameExtension returns, by their message
ErrUnimplementedSAN == "unimplemented SAN type"
ErrUnsupportedSAN == "unsupported SAN type"
ErrInvalidInt == "invalid int value for int-typed SAN OtherName"
ErrInvalidOID == "invalid OID value for OID-typed SAN OtherName"
ErrMarshal == "could not marshal ASN1 values"

(***************************************************************************)
(* asn1.RawValue.  A context-specific primitive value carries Tag, Class   *)
(* and its content (Bytes for text, IP for address bytes); a value given   *)
(* by FullBytes carries what was marshalled into it.  A RawValue whose     *)
(* FullBytes is nil is the zero RawValue: tag 0, class 0, no content.      *)
(***************************************************************************)
ZeroRawValue == [Tag |-> 0, Class |-> 0, Bytes |-> <<>>]

SubjectAlternativeName(type, value) == [Type |-> type, Value |-> value]

RECURSIVE sansOfStrings(_, _)
sansOfStrings(type, values) ==
    IF values = <<>> THEN <<>>
    ELSE <<SubjectAlternativeName(type, Head(values))>> \o sansOfStrings(type, Tail(values))

RECURSIVE sansOfURIs(_)
sansOfURIs(uris) ==
    IF uris = <<>> THEN <<>>
    ELSE <<SubjectAlternativeName(URIType, URLString(Head(uris)))>> \o sansOfURIs(Tail(uris))

RECURSIVE sansOfIPs(_)
sansOfIPs(ips) ==
    IF ips = <<>> THEN <<>>
    ELSE <<SubjectAlternativeName(IPType, IPString(Head(ips)))>> \o sansOfIPs(Tail(ips))

\* a complete list that takes the IP addresses before the URIs
allSANsIPsBeforeURIs(c) ==
    c.SANs
        \o sansOfStrings(DNSType, c.DNSNames)
        \o sansOfStrings(EmailType, c.EmailAddresses)
        \o sansOfIPs(c.IPAddresses)
        \o sansOfURIs(c.URIs)

\* the complete list: the SANs, then the DNS names, the email addresses,
\* the URIs and the IP addresses of the template
allSANs(c) ==
    c.SANs
        \o sansOfStrings(DNSType, c.DNSNames)
        \o sansOfStrings(EmailType, c.EmailAddresses)
        \o sansOfURIs(c.URIs)
        \o sansOfIPs(c.IPAddresses)

\* a case IPType that fails on an address that does not parse
rawIPOrError(san) ==
    With(ParseIP(san.Value), LAMBDA rawIPBytes :
        LET ip == IF To4(rawIPBytes) = <<>> THEN rawIPBytes ELSE To4(rawIPBytes) IN
        IF rawIPBytes # <<>>
        THEN [err |-> NoErr, raw |-> <<[Tag |-> nameTypeIP, Class |-> 2, IP |-> ip]>>]
        ELSE [err |-> "invalid IP address"])

\* case IPType: an address that does not parse adds nothing
rawIP(san) ==
    With(ParseIP(san.Value), LAMBDA rawIPBytes :
        LET ip == IF To4(rawIPBytes) = <<>> THEN rawIPBytes ELSE To4(rawIPBytes) IN
        IF rawIPBytes # <<>>
        THEN [err |-> NoErr, raw |-> <<[Tag |-> nameTypeIP, Class |-> 2, IP |-> ip]>>]
        ELSE [err |-> NoErr, raw |-> <<>>])

\* case RegisteredIDType: an OID that does not parse adds nothing; the
\* error of the marshaller is dropped, so an OID without DER form adds a
\* RawValue with nil FullBytes
rawRegisteredID(san) ==
    With(parseObjectIdentifier(san.Value), LAMBDA p :
        IF san.Value # <<>> /\ p.ok
        THEN [err |-> NoErr,
              raw |-> <<IF makeObjectIdentifierOK(p.oid)
                        THEN [Tag |-> nameTypeRegisteredID, Class |-> 2, OID |-> p.oid]
                        ELSE ZeroRawValue>>]
        ELSE [err |-> NoErr, raw |-> <<>>])

\* asn1.MarshalWithParams of a string: [err, value]
marshalString(type, ok, text) ==
    IF ok THEN [err |-> NoErr, value |-> [Type |-> type, Str |-> text]]
    ELSE [err |-> ErrMarshal]

\* the switch on valueType: [err, value]
marshalOtherNameValue(valueType, sanValue, value) ==
    CASE valueType = S_int ->
            With(Atoi(sanValue), LAMBDA i :
                IF ~i.ok THEN [err |-> ErrInvalidInt]
                ELSE [err |-> NoErr,
                      value |-> [Type |-> "INTEGER", Int |-> [neg |-> i.neg, mag |-> i.mag]]])
      [] valueType = S_oid ->
            With(parseObjectIdentifier(sanValue), LAMBDA oidVal :
                IF ~oidVal.ok THEN [err |-> ErrInvalidOID]
                ELSE IF ~makeObjectIdentifierOK(oidVal.oid) THEN [err |-> ErrMarshal]
                ELSE [err |-> NoErr,
                      value |-> [Type |-> "OBJECT IDENTIFIER", OID |-> oidVal.oid]])
      [] valueType = S_utf8 -> marshalString("UTF8String", TRUE, sanValue)
      [] valueType = S_ia5 -> marshalString("IA5String", makeIA5StringOK(sanValue), sanValue)
      [] valueType = S_numeric ->
            marshalString("NumericString", makeNumericStringOK(sanValue), sanValue)
      [] valueType = S_printable ->
            marshalString("PrintableString", makePrintableStringOK(sanValue), sanValue)
      [] OTHER -> marshalString("PrintableString", makePrintableStringOK(value), value)

\* the value type is what precedes the first ";", the value what follows
\* it; without ";" the value is printable
valueTypeOf(value) ==
    IF Contains(value, ";") THEN Split(value, ";")[1] ELSE S_printable

sanValueOf(value, valueType) ==
    IF Contains(value, ";") THEN SliceFrom(value, Len(valueType) + 1) ELSE value

\* the value of an OtherName: [err, value]
otherNameValue(san) ==
    With(valueTypeOf(san.Value), LAMBDA valueType :
    With(sanValueOf(san.Value, valueType), LAMBDA sanValue :
        marshalOtherNameValue(valueType, sanValue, san.Value)))

\* a default case that adds nothing for a type that is no OID
rawOtherNameOrNothing(san) == [err |-> NoErr, raw |-> <<>>]

\* the default case: a type that is an OID makes an OtherName; the error
\* of marshalling the OtherName is dropped
rawOtherName(san) ==
    IF san.Type = <<>> THEN [err |-> NoErr, raw |-> <<>>]
    ELSE With(parseObjectIdentifier(san.Type), LAMBDA oid :
            IF ~oid.ok THEN [err |-> ErrUnsupportedSAN]
            ELSE With(otherNameValue(san), LAMBDA v :
                    IF v.err # NoErr THEN [err |-> v.err]
                    ELSE [err |-> NoErr,
                          raw |-> <<IF makeObjectIdentifierOK(oid.oid)
                                    THEN [Tag |-> nameTypeOtherName, Class |-> 2,
                                          OtherName |-> [OID |-> oid.oid, Value |-> v.value]]
                                    ELSE ZeroRawValue>>]))

\* the switch on san.Type: [err, raw], raw the RawValues the entry adds
rawValuesOf(san) ==
    CASE san.Type = EmailType ->
            [err |-> NoErr, raw |-> <<[Tag |-> nameTypeEmail, Class |-> 2, Bytes |-> san.Value]>>]
      [] san.Type = DNSType ->
            [err |-> NoErr, raw |-> <<[Tag |-> nameTypeDNS, Class |-> 2, Bytes |-> san.Value]>>]
      [] san.Type \in {X400AddressType, DirectoryNameType, EDIPartyNameType} ->
            [err |-> ErrUnimplementedSAN]
      [] san.Type = URIType ->
            [err |-> NoErr, raw |-> <<[Tag |-> nameTypeURI, Class |-> 2, Bytes |-> san.Value]>>]
      [] san.Type = IPType -> rawIP(san)
      [] san.Type = RegisteredIDType -> rawRegisteredID(san)
      [] OTHER -> rawOtherName(san)

\* the loop over allSANs: it returns at the first entry that fails
RECURSIVE rawValuesFrom(_, _, _)
rawValuesFrom(sans, i, rawValues) ==
    IF i > Len(sans) THEN [err |-> NoErr, rawValues |-> rawValues]
    ELSE With(rawValuesOf(sans[i]), LAMBDA r :
            IF r.err # NoErr THEN [err |-> r.err]
            ELSE With(rawValues \o r.raw, LAMBDA appended :
                    rawValuesFrom(sans, i + 1, appended)))

\* a Critical that is true when the Subject of the template is blank
sanCriticalIfSubjectBlank(c) == \A f \in DOMAIN c.Subject : c.Subject[f] = <<>>

\* Critical of the extension
sanCritical(c) == FALSE

createSubjectAltNameExtension(c) ==
    With(allSANs(c), LAMBDA sans :
    With(rawValuesFrom(sans, 1, <<>>), LAMBDA r :
        IF r.err # NoErr THEN [err |-> r.err, ext |-> Nil]
        ELSE [err |-> NoErr,
              ext |-> [ID |-> subjectAlternativeNameOID,
                       Critical |-> sanCritical(c),
                       Value |-> r.rawValues]]))

(***************************************************************************)
(* The template: Certificate and Name, with the zero value of each.        *)
(***************************************************************************)
ZeroName ==
    [Country |-> <<>>, Organization |-> <<>>, OrganizationalUnit |-> <<>>,
     DomainController |-> <<>>, Locality |-> <<>>, Province |-> <<>>,
     StreetAddress |-> <<>>, PostalCode |-> <<>>, SerialNumber |-> <<>>,
     CommonName |-> <<>>, Surname |-> <<>>, GivenName |-> <<>>, Title |-> <<>>,
     UID |-> <<>>]

ZeroCertificate ==
    [Version |-> 0, Subject |-> ZeroName, Issuer |-> ZeroName, SerialNumber |-> <<>>,
     DNSNames |-> <<>>, EmailAddresses |-> <<>>, IPAddresses |-> <<>>, URIs |-> <<>>,
     SANs |-> <<>>, Extensions |-> <<>>, KeyUsage |-> 0, ExtKeyUsage |-> <<>>,
     UnknownExtKeyUsage |-> <<>>, SubjectKeyID |-> <<>>, AuthorityKeyID |-> <<>>,
     OCSPServer |-> <<>>, IssuingCertificateURL |-> <<>>,
     CRLDistributionPoints |-> <<>>, PolicyIdentifiers |-> <<>>,
     BasicConstraints |-> <<>>, NameConstraints |-> <<>>, SignatureAlgorithm |-> 0,
     PublicKeyAlgorithm |-> 0, PublicKey |-> Nil]

(***************************************************************************)
(* The texts the inputs of the model are made of.                          *)
(***************************************************************************)
V_dns == <<"a", ".", "i", "o">>
V_dns2 == <<"b", ".", "i", "o">>
V_dns3 == <<"c", ".", "i", "o">>
V_email == <<"u", "@", "a", ".", "i", "o">>
V_email2 == <<"v", "@", "b", ".", "i", "o">>
V_uri == <<"h", "t", "t", "p", "s", ":", "/", "/", "a", ".", "i", "o", "/", "x">>
V_uriUpper == <<"H", "T", "T", "P", ":", "/", "/", "b", ".", "i", "o">>
V_uriBad == <<":", "a", ".", "i", "o">>
V_ip4 == <<"1", "0", ".", "0", ".", "0", ".", "1">>
V_ip4b == <<"1", "0", ".", "0", ".", "0", ".", "2">>
V_ip6 == <<"f", "e", "8", "0", ":", ":", "1">>
V_ip6mapped == <<":", ":", "f", "f", "f", "f", ":", "a", "0", "0", ":", "1">>
V_ipBad == <<"n", "o", "-", "i", "p">>
V_oid == <<"1", ".", "2", ".", "3">>
V_oidBad == <<"1", ".", "x">>
V_oidOne == <<"1">>
V_x == <<"x">>
T_oid == <<"1", ".", "2", ".", "3", ".", "4">>
T_oidArc == <<"3", ".", "1">>
T_oidOne == <<"1">>
T_oidBad == <<"1", ".", "2", ".", "x">>
T_DNS == <<"D", "N", "S">>
T_directoryName == <<"d", "i", "r", "e", "c", "t", "o", "r", "y", "N", "a", "m", "e">>
V_int42 == <<"i", "n", "t", ";", "4", "2">>
V_intBad == <<"i", "n", "t", ";", "4", "x">>
V_cn == <<"e", "x", "a", "m", "p", "l", "e", ".", "c", "o", "m">>
K_foo == <<"f", "o", "o">>
K_INT == <<"I", "N", "T">>
P_42 == <<"4", "2">>
P_neg7 == <<"-", "7">>
P_plus5 == <<"+", "5">>
P_007 == <<"0", "0", "7">>
P_4x == <<"4", "x">>
P_big == <<"9", "9", "9", "9", "9", "9", "9", "9", "9", "9", "9", "9", "9", "9", "9", "9", "9", "9", "9", "9">>
P_oid == <<"1", ".", "2", ".", "3">>
P_oidOne == <<"1">>
P_oidX == <<"2", ".", "x">>
P_text == <<"a", " ", "b">>
P_semi == <<"a", ";", "b">>
P_at == <<"a", "@", "b">>
P_num == <<"1", "2", " ", "3">>
V_plain == <<"p", "l", "a", "i", "n", " ", "t", "e", "x", "t">>
V_under == <<"a", "_", "b">>
P_nonASCII == <<"a", "U+00E9">>

\* the longest list of explicit SANs of an input
MaxSANs == 2

SeqsUpTo(S, n) == UNION {[1..k -> S] : k \in 0..n}

\* explicit SANs that are combined into lists
ListedSANs ==
    {SubjectAlternativeName(DNSType, V_dns),
     SubjectAlternativeName(EmailType, V_email),
     SubjectAlternativeName(URIType, V_uri),
     SubjectAlternativeName(IPType, V_ip4),
     SubjectAlternativeName(IPType, V_ipBad),
     SubjectAlternativeName(RegisteredIDType, V_oid),
     SubjectAlternativeName(RegisteredIDType, V_oidBad),
     SubjectAlternativeName(X400AddressType, V_x),
     SubjectAlternativeName(<<>>, V_dns),
     SubjectAlternativeName(T_oid, V_int42),
     SubjectAlternativeName(T_oid, V_intBad),
     SubjectAlternativeName(T_DNS, V_dns2)}

\* the types, value-type prefixes and payloads of the OtherNames tried alone
OtherNameTypes == {T_oid, T_oidArc, T_oidOne}
ValueKinds == {S_int, S_oid, S_utf8, S_ia5, S_numeric, S_printable}
Prefixes == ValueKinds \cup {K_foo, K_INT, <<>>}
Payloads ==
    {P_42, P_neg7, P_plus5, P_007, P_4x, P_big, P_oid, P_oidOne, P_oidX, P_text,
     P_semi, P_at, P_num, P_nonASCII, <<>>}
PlainValues == {V_plain, V_under, P_at, P_42, <<>>}

\* explicit SANs that are tried alone
SingleSANs ==
    {SubjectAlternativeName(t, k \o <<";">> \o p) :
        t \in OtherNameTypes, k \in Prefixes, p \in Payloads}
    \cup {SubjectAlternativeName(t, v) : t \in OtherNameTypes, v \in PlainValues}
    \cup {SubjectAlternativeName(DirectoryNameType, V_x),
          SubjectAlternativeName(EDIPartyNameType, V_x),
          SubjectAlternativeName(T_directoryName, V_x),
          SubjectAlternativeName(AutoType, V_dns),
          SubjectAlternativeName(T_oidBad, V_plain),
          SubjectAlternativeName(RegisteredIDType, V_oidOne),
          SubjectAlternativeName(RegisteredIDType, <<>>),
          SubjectAlternativeName(IPType, V_ip6),
          SubjectAlternativeName(IPType, V_ip6mapped),
          SubjectAlternativeName(IPType, <<>>)}

\* the shorthand fields of a template hold what their decoders produced
URLOf(s) == urlParse(s).url

ShorthandDNSNames == {<<>>, <<V_dns2, V_dns3>>}
ShorthandEmailAddresses == {<<>>, <<V_email2>>}
ShorthandURIs == {<<>>, <<URLOf(V_uriUpper)>>}
ShorthandIPAddresses == {<<>>, <<ParseIP(V_ip4b), ParseIP(V_ip6)>>}

Subjects == {ZeroName, [ZeroName EXCEPT !.CommonName = V_cn]}

\* the templates handed to createSubjectAltNameExtension
EncoderInputs ==
    {[ZeroCertificate EXCEPT !.SANs = l, !.DNSNames = d, !.EmailAddresses = e,
                             !.URIs = u, !.IPAddresses = i, !.Subject = s] :
        l \in SeqsUpTo(ListedSANs, MaxSANs) \cup {<<x>> : x \in SingleSANs},
        d \in ShorthandDNSNames, e \in ShorthandEmailAddresses,
        u \in ShorthandURIs, i \in ShorthandIPAddresses, s \in Subjects}

(***************************************************************************)
(* The specification of the SAN encoder: a template is chosen and          *)
(* createSubjectAltNameExtension is called on it.                          *)
(***************************************************************************)
InitSAN ==
    /\ pc = "san"
    /\ template \in EncoderInputs
    /\ cr = Nil /\ opts = Nil /\ ret = <<>> /\ err = NoErr /\ cert = Nil /\ idx = 0
    /\ ext = Nil
    /\ signer = <<>> /\ mem = <<>>

CreateSubjectAltNameExtension ==
    /\ pc = "san"
    /\ \E r \in {createSubjectAltNameExtension(template)} :
          /\ ext' = r.ext
          /\ err' = r.err
    /\ pc' = "sanDone"
    /\ UNCHANGED <<cr, opts, template, ret, cert, idx, signer, mem>>

NextSAN == CreateSubjectAltNameExtension

SpecSAN == InitSAN /\ [][NextSAN]_vars

(***************************************************************************)
(* x509.Certificate, the certificate GetCertificate fills, and the Set     *)
(* methods that fill it.  A nil slice and an empty one are both <<>>; a    *)
(* pointer is a sequence of at most one element, nil being <<>>.           *)
(***************************************************************************)
ZeroPkixName ==
    [Country |-> <<>>, Organization |-> <<>>, OrganizationalUnit |-> <<>>,
     Locality |-> <<>>, Province |-> <<>>, StreetAddress |-> <<>>,
     PostalCode |-> <<>>, SerialNumber |-> <<>>, CommonName |-> <<>>,
     ExtraNames |-> <<>>]

ZeroX509Certificate ==
    [PublicKey |-> Nil, PublicKeyAlgorithm |-> 0,
     DNSNames |-> <<>>, EmailAddresses |-> <<>>, IPAddresses |-> <<>>, URIs |-> <<>>,
     Subject |-> ZeroPkixName, Issuer |-> ZeroPkixName,
     KeyUsage |-> 0, ExtKeyUsage |-> <<>>, UnknownExtKeyUsage |-> <<>>,
     SubjectKeyId |-> <<>>, AuthorityKeyId |-> <<>>, OCSPServer |-> <<>>,
     IssuingCertificateURL |-> <<>>, CRLDistributionPoints |-> <<>>,
     PolicyIdentifiers |-> <<>>,
     BasicConstraintsValid |-> FALSE, IsCA |-> FALSE, MaxPathLen |-> 0,
     MaxPathLenZero |-> FALSE,
     PermittedDNSDomainsCritical |-> FALSE,
     PermittedDNSDomains |-> <<>>, ExcludedDNSDomains |-> <<>>,
     PermittedIPRanges |-> <<>>, ExcludedIPRanges |-> <<>>,
     PermittedEmailAddresses |-> <<>>, ExcludedEmailAddresses |-> <<>>,
     PermittedURIDomains |-> <<>>, ExcludedURIDomains |-> <<>>,
     ExtraExtensions |-> <<>>, SerialNumber |-> <<>>, SignatureAlgorithm |-> 0]

\* the attribute types of a name
oidUID == <<0, 9, 2342, 19200300, 100, 1, 1>>
oidDC == <<0, 9, 2342, 19200300, 100, 1, 25>>
oidCommonName == <<2, 5, 4, 3>>
oidSurname == <<2, 5, 4, 4>>
oidSerialNumber == <<2, 5, 4, 5>>
oidCountry == <<2, 5, 4, 6>>
oidLocality == <<2, 5, 4, 7>>
oidProvince == <<2, 5, 4, 8>>
oidStreetAddress == <<2, 5, 4, 9>>
oidOrganization == <<2, 5, 4, 10>>
oidOrganizationalUnit == <<2, 5, 4, 11>>
oidTitle == <<2, 5, 4, 12>>
oidPostalCode == <<2, 5, 4, 17>>
oidGivenName == <<2, 5, 4, 42>>

\* asn1.TagIA5String
TagIA5String == 22

\* pkix.AttributeTypeAndValue of one value, as Subject.Set appends it
attributeOf(type, value) ==
    [Type |-> type, Value |-> [Tag |-> TagIA5String, Bytes |-> value]]

\* the attributes of a multi-valued field, one for each value
attributesOf(type, values) == [i \in 1..Len(values) |-> attributeOf(type, values[i])]

\* the attribute of a single-valued field, none when it is empty
attributeIfSet(type, value) == IF value # <<>> THEN <<attributeOf(type, value)>> ELSE <<>>

\* Subject.Set as the fields of a pkix.Name, without the ExtraNames
SubjectSetFields(s, c) ==
    [c EXCEPT !.Subject =
        [ZeroPkixName EXCEPT !.Country = s.Country, !.Organization = s.Organization,
                             !.OrganizationalUnit = s.OrganizationalUnit,
                             !.Locality = s.Locality, !.Province = s.Province,
                             !.StreetAddress = s.StreetAddress,
                             !.PostalCode = s.PostalCode,
                             !.SerialNumber = s.SerialNumber,
                             !.CommonName = s.CommonName]]

\* Subject.Set: the subject is an empty pkix.Name but for its ExtraNames
SubjectSet(s, c) ==
    [c EXCEPT !.Subject =
        [ZeroPkixName EXCEPT !.ExtraNames =
            attributesOf(oidCountry, s.Country)
                \o attributesOf(oidLocality, s.Locality)
                \o attributesOf(oidProvince, s.Province)
                \o attributesOf(oidStreetAddress, s.StreetAddress)
                \o attributesOf(oidPostalCode, s.PostalCode)
                \o attributesOf(oidOrganization, s.Organization)
                \o attributesOf(oidDC, s.DomainController)
                \o attributesOf(oidOrganizationalUnit, s.OrganizationalUnit)
                \o attributeIfSet(oidTitle, s.Title)
                \o attributeIfSet(oidGivenName, s.GivenName)
                \o attributeIfSet(oidSurname, s.Surname)
                \o attributeIfSet(oidCommonName, s.CommonName)
                \o attributeIfSet(oidSerialNumber, s.SerialNumber)
                \o attributeIfSet(oidUID, s.UID)]]

\* Issuer.Set
IssuerSet(i, c) ==
    [c EXCEPT !.Issuer =
        [ZeroPkixName EXCEPT !.Country = i.Country, !.Organization = i.Organization,
                             !.OrganizationalUnit = i.OrganizationalUnit,
                             !.Locality = i.Locality, !.Province = i.Province,
                             !.StreetAddress = i.StreetAddress,
                             !.PostalCode = i.PostalCode,
                             !.SerialNumber = i.SerialNumber,
                             !.CommonName = i.CommonName]]

\* SplitSANs: each value goes to the first list that takes it: the IP
\* addresses, the URIs (a URL with a scheme), the email addresses (it holds
\* an "@"), and the DNS names otherwise
RECURSIVE SplitSANs(_)
SplitSANs(sans) ==
    IF sans = <<>>
    THEN [dnsNames |-> <<>>, ips |-> <<>>, emails |-> <<>>, uris |-> <<>>]
    ELSE With(SplitSANs(Tail(sans)), LAMBDA rest :
         With(Head(sans), LAMBDA san :
         With(ParseIP(san), LAMBDA ip :
         With(urlParse(san), LAMBDA u :
            IF ip # <<>> THEN [rest EXCEPT !.ips = <<ip>> \o @]
            ELSE IF u.ok /\ u.url.Scheme # <<>> THEN [rest EXCEPT !.uris = <<u.url>> \o @]
            ELSE IF Contains(san, "@") THEN [rest EXCEPT !.emails = <<san>> \o @]
            ELSE [rest EXCEPT !.dnsNames = <<san>> \o @]))))

\* a SubjectAlternativeName.Set whose DNS case sets the list to its value
SubjectAlternativeNameSetOverwriting(s, c) ==
    With(ToLower(s.Type), LAMBDA type :
        CASE type = DNSType ->
                [panic |-> FALSE, c |-> [c EXCEPT !.DNSNames = <<s.Value>>]]
          [] type = EmailType ->
                [panic |-> FALSE, c |-> [c EXCEPT !.EmailAddresses = Append(@, s.Value)]]
          [] type = IPType ->
                With(ParseIP(s.Value), LAMBDA ip :
                    [panic |-> FALSE,
                     c |-> IF ip # <<>> THEN [c EXCEPT !.IPAddresses = Append(@, ip)]
                           ELSE c])
          [] type = URIType ->
                With(urlParse(s.Value), LAMBDA u :
                    [panic |-> FALSE,
                     c |-> IF u.ok THEN [c EXCEPT !.URIs = Append(@, u.url)] ELSE c])
          [] type \in {<<>>, AutoType} ->
                With(SplitSANs(<<s.Value>>), LAMBDA split :
                    [panic |-> FALSE,
                     c |-> [c EXCEPT !.DNSNames = @ \o split.dnsNames,
                                     !.IPAddresses = @ \o split.ips,
                                     !.EmailAddresses = @ \o split.emails,
                                     !.URIs = @ \o split.uris]])
          [] OTHER -> [panic |-> TRUE, c |-> c])

\* SubjectAlternativeName.Set: [panic, c]; it panics on a type it does not
\* know and leaves the certificate as it was
SubjectAlternativeNameSet(s, c) ==
    With(ToLower(s.Type), LAMBDA type :
        CASE type = DNSType ->
                [panic |-> FALSE, c |-> [c EXCEPT !.DNSNames = Append(@, s.Value)]]
          [] type = EmailType ->
                [panic |-> FALSE, c |-> [c EXCEPT !.EmailAddresses = Append(@, s.Value)]]
          [] type = IPType ->
                With(ParseIP(s.Value), LAMBDA ip :
                    [panic |-> FALSE,
                     c |-> IF ip # <<>> THEN [c EXCEPT !.IPAddresses = Append(@, ip)]
                           ELSE c])
          [] type = URIType ->
                With(urlParse(s.Value), LAMBDA u :
                    [panic |-> FALSE,
                     c |-> IF u.ok THEN [c EXCEPT !.URIs = Append(@, u.url)] ELSE c])
          [] type \in {<<>>, AutoType} ->
                With(SplitSANs(<<s.Value>>), LAMBDA split :
                    [panic |-> FALSE,
                     c |-> [c EXCEPT !.DNSNames = @ \o split.dnsNames,
                                     !.IPAddresses = @ \o split.ips,
                                     !.EmailAddresses = @ \o split.emails,
                                     !.URIs = @ \o split.uris]])
          [] OTHER -> [panic |-> TRUE, c |-> c])

\* KeyUsage.Set
KeyUsageSet(k, c) == [c EXCEPT !.KeyUsage = k]

\* ExtKeyUsage.Set
ExtKeyUsageSet(k, c) == [c EXCEPT !.ExtKeyUsage = k]

\* UnknownExtKeyUsage.Set
UnknownExtKeyUsageSet(u, c) == [c EXCEPT !.UnknownExtKeyUsage = u]

\* SubjectKeyID.Set
SubjectKeyIDSet(id, c) == [c EXCEPT !.SubjectKeyId = id]

\* AuthorityKeyID.Set
AuthorityKeyIDSet(id, c) == [c EXCEPT !.AuthorityKeyId = id]

\* OCSPServer.Set
OCSPServerSet(o, c) == [c EXCEPT !.OCSPServer = o]

\* IssuingCertificateURL.Set
IssuingCertificateURLSet(u, c) == [c EXCEPT !.IssuingCertificateURL = u]

\* CRLDistributionPoints.Set
CRLDistributionPointsSet(u, c) == [c EXCEPT !.CRLDistributionPoints = u]

\* PolicyIdentifiers.Set
PolicyIdentifiersSet(p, c) == [c EXCEPT !.PolicyIdentifiers = p]

\* a BasicConstraints.Set that takes the path length as it is given
BasicConstraintsSetAsGiven(b, c) ==
    [c EXCEPT !.BasicConstraintsValid = TRUE, !.IsCA = b.IsCA,
              !.MaxPathLen = b.MaxPathLen, !.MaxPathLenZero = (b.MaxPathLen = 0)]

\* BasicConstraints.Set
BasicConstraintsSet(b, c) ==
    IF b.IsCA
    THEN CASE b.MaxPathLen = 0 ->
                [c EXCEPT !.BasicConstraintsValid = TRUE, !.IsCA = TRUE,
                          !.MaxPathLen = 0, !.MaxPathLenZero = TRUE]
           [] b.MaxPathLen < 0 ->
                [c EXCEPT !.BasicConstraintsValid = TRUE, !.IsCA = TRUE,
                          !.MaxPathLen = -1, !.MaxPathLenZero = FALSE]
           [] OTHER ->
                [c EXCEPT !.BasicConstraintsValid = TRUE, !.IsCA = TRUE,
                          !.MaxPathLen = b.MaxPathLen, !.MaxPathLenZero = FALSE]
    ELSE [c EXCEPT !.BasicConstraintsValid = TRUE, !.IsCA = FALSE,
                   !.MaxPathLen = 0, !.MaxPathLenZero = FALSE]

\* NameConstraints.Set
NameConstraintsSet(n, c) ==
    [c EXCEPT !.PermittedDNSDomainsCritical = n.Critical,
              !.PermittedDNSDomains = n.PermittedDNSDomains,
              !.ExcludedDNSDomains = n.ExcludedDNSDomains,
              !.PermittedIPRanges = n.PermittedIPRanges,
              !.ExcludedIPRanges = n.ExcludedIPRanges,
              !.PermittedEmailAddresses = n.PermittedEmailAddresses,
              !.ExcludedEmailAddresses = n.ExcludedEmailAddresses,
              !.PermittedURIDomains = n.PermittedURIDomains,
              !.ExcludedURIDomains = n.ExcludedURIDomains]

\* Extension.Set
ExtensionSet(e, c) ==
    [c EXCEPT !.ExtraExtensions =
        Append(@, [Id |-> e.ID, Critical |-> e.Critical, Value |-> e.Value])]

\* SerialNumber.Set
SerialNumberSet(s, c) == [c EXCEPT !.SerialNumber = s]

\* SignatureAlgorithm.Set
SignatureAlgorithmSet(s, c) == [c EXCEPT !.SignatureAlgorithm = s]

(***************************************************************************)
(* JSON.  A value is a record of its kind and its content; an object is a  *)
(* record of its keys, each holding <<>> when the key is absent and        *)
(* <<value>> when it is present.                                           *)
(***************************************************************************)
JString(s) == [kind |-> "string", str |-> s]
JNumber(n) == [kind |-> "number", num |-> n]
JBool(b) == [kind |-> "bool", bool |-> b]
JArray(items) == [kind |-> "array", items |-> items]
JObject(keys) == [kind |-> "object", keys |-> keys]

\* the errors of decoding, by their message
ErrUnmarshalType == "json: cannot unmarshal value"
ErrUnsupportedKeyUsage == "unsupported keyUsage"
ErrUnmarshalIP == "error unmarshaling ip"
ErrUnmarshalURL == "error unmarshaling url"

\* maybeString: the string a JSON string holds
maybeString(data) ==
    IF data.kind = "string" THEN [ok |-> TRUE, s |-> data.str] ELSE [ok |-> FALSE]

AllStrings(items) == \A i \in 1..Len(items) : items[i].kind = "string"

\* unmarshalMultiString: a string is a list of one, a list of strings is
\* itself, anything else fails
unmarshalMultiString(data) ==
    CASE data.kind = "string" -> [err |-> NoErr, ms |-> <<data.str>>]
      [] data.kind = "array" /\ AllStrings(data.items) ->
            [err |-> NoErr, ms |-> [i \in 1..Len(data.items) |-> data.items[i].str]]
      [] OTHER -> [err |-> ErrUnmarshalType]

\* MultiIP.UnmarshalJSON: every string must be an IP address
MultiIPUnmarshalJSON(data) ==
    With(unmarshalMultiString(data), LAMBDA r :
        IF r.err # NoErr THEN [err |-> r.err]
        ELSE With([i \in 1..Len(r.ms) |-> ParseIP(r.ms[i])], LAMBDA ips :
                IF \E i \in 1..Len(ips) : ips[i] = <<>> THEN [err |-> ErrUnmarshalIP]
                ELSE [err |-> NoErr, ips |-> ips]))

\* MultiURL.UnmarshalJSON: every string must be a URL
MultiURLUnmarshalJSON(data) ==
    With(unmarshalMultiString(data), LAMBDA r :
        IF r.err # NoErr THEN [err |-> r.err]
        ELSE With([i \in 1..Len(r.ms) |-> urlParse(r.ms[i])], LAMBDA us :
                IF \E i \in 1..Len(us) : ~us[i].ok THEN [err |-> ErrUnmarshalURL]
                ELSE [err |-> NoErr, urls |-> [i \in 1..Len(us) |-> us[i].url]]))

\* Name.UnmarshalJSON: a string is the common name alone, an object gives
\* the fields of its keys (country, organization, organizationalUnit and
\* commonName are the keys the objects of the model have)
NameUnmarshalJSON(data) ==
    With(maybeString(data), LAMBDA cn :
        IF cn.ok THEN [err |-> NoErr, name |-> [ZeroName EXCEPT !.CommonName = cn.s]]
        ELSE IF data.kind # "object" THEN [err |-> ErrUnmarshalType]
        ELSE With([k \in {"country", "organization", "organizationalUnit"} |->
                        IF data.keys[k] = <<>> THEN [err |-> NoErr, ms |-> <<>>]
                        ELSE unmarshalMultiString(data.keys[k][1])], LAMBDA multi :
                IF \E k \in DOMAIN multi : multi[k].err # NoErr
                THEN [err |-> ErrUnmarshalType]
                ELSE IF data.keys.commonName # <<>>
                        /\ data.keys.commonName[1].kind # "string"
                THEN [err |-> ErrUnmarshalType]
                ELSE [err |-> NoErr,
                      name |-> [ZeroName EXCEPT
                                    !.Country = multi.country.ms,
                                    !.Organization = multi.organization.ms,
                                    !.OrganizationalUnit = multi.organizationalUnit.ms,
                                    !.CommonName =
                                        IF data.keys.commonName = <<>> THEN <<>>
                                        ELSE data.keys.commonName[1].str]]))

\* Subject.UnmarshalJSON
SubjectUnmarshalJSON(data) == NameUnmarshalJSON(data)

\* a | b of two bit masks
RECURSIVE BitOr(_, _)
BitOr(a, b) ==
    IF a = 0 THEN b
    ELSE IF b = 0 THEN a
    ELSE 2 * BitOr(a \div 2, b \div 2) + (IF a % 2 = 1 \/ b % 2 = 1 THEN 1 ELSE 0)

\* the names of the key usages as they are written, and the table of the
\* switch of KeyUsage.UnmarshalJSON: the converted name and its bit
N_DigitalSignature == <<"D", "i", "g", "i", "t", "a", "l", "S", "i", "g", "n", "a", "t", "u", "r", "e">>
N_ContentCommitment == <<"C", "o", "n", "t", "e", "n", "t", "C", "o", "m", "m", "i", "t", "m", "e", "n", "t">>
N_KeyEncipherment == <<"K", "e", "y", "E", "n", "c", "i", "p", "h", "e", "r", "m", "e", "n", "t">>
N_DataEncipherment == <<"D", "a", "t", "a", "E", "n", "c", "i", "p", "h", "e", "r", "m", "e", "n", "t">>
N_KeyAgreement == <<"K", "e", "y", "A", "g", "r", "e", "e", "m", "e", "n", "t">>
N_CertSign == <<"C", "e", "r", "t", "S", "i", "g", "n">>
N_CRLSign == <<"C", "R", "L", "S", "i", "g", "n">>
N_EncipherOnly == <<"E", "n", "c", "i", "p", "h", "e", "r", "O", "n", "l", "y">>
N_DecipherOnly == <<"D", "e", "c", "i", "p", "h", "e", "r", "O", "n", "l", "y">>

KeyUsageTable ==
    <<[name |-> convertName(N_DigitalSignature), ku |-> 1],
      [name |-> convertName(N_ContentCommitment), ku |-> 2],
      [name |-> convertName(N_KeyEncipherment), ku |-> 4],
      [name |-> convertName(N_DataEncipherment), ku |-> 8],
      [name |-> convertName(N_KeyAgreement), ku |-> 16],
      [name |-> convertName(N_CertSign), ku |-> 32],
      [name |-> convertName(N_CRLSign), ku |-> 64],
      [name |-> convertName(N_EncipherOnly), ku |-> 128],
      [name |-> convertName(N_DecipherOnly), ku |-> 256]>>

\* the loop of KeyUsage.UnmarshalJSON from the i-th name on: [err, k]; at
\* an unknown name k holds the bits of the names before it
RECURSIVE keyUsageFrom(_, _, _)
keyUsageFrom(ms, i, k) ==
    IF i > Len(ms) THEN [err |-> NoErr, k |-> k]
    ELSE With(convertName(ms[i]), LAMBDA name :
            IF \E j \in 1..Len(KeyUsageTable) : KeyUsageTable[j].name = name
            THEN With(BitOr(k, (CHOOSE e \in Range(KeyUsageTable) : e.name = name).ku),
                      LAMBDA next : keyUsageFrom(ms, i + 1, next))
            ELSE [err |-> ErrUnsupportedKeyUsage, k |-> k])

\* KeyUsage.UnmarshalJSON: [err, k]
KeyUsageUnmarshalJSON(data) ==
    With(unmarshalMultiString(data), LAMBDA r :
        IF r.err # NoErr THEN [err |-> r.err] ELSE keyUsageFrom(r.ms, 1, 0))

\* the decoding of a list of SubjectAlternativeName: [err, sans]
sansUnmarshal(data) ==
    IF data.kind # "array" \/ \E i \in 1..Len(data.items) : data.items[i].kind # "object"
    THEN [err |-> ErrUnmarshalType]
    ELSE [err |-> NoErr,
          sans |-> [i \in 1..Len(data.items) |->
                        SubjectAlternativeName(data.items[i].keys.type,
                                               data.items[i].keys.value)]]

\* the decoding of a *BasicConstraints: [err, b]
basicConstraintsUnmarshal(data) ==
    IF data.kind # "object" THEN [err |-> ErrUnmarshalType]
    ELSE [err |-> NoErr,
          b |-> <<[IsCA |-> data.keys.isCA, MaxPathLen |-> data.keys.maxPathLen]>>]

\* ObjectIdentifier.UnmarshalJSON: [err, oid]
ErrParseOID == "error parsing object identifier"

ObjectIdentifierUnmarshalJSON(data) ==
    IF data.kind # "string" THEN [err |-> ErrUnmarshalType]
    ELSE With(parseObjectIdentifier(data.str), LAMBDA r :
            IF r.ok THEN [err |-> NoErr, oid |-> r.oid] ELSE [err |-> ErrParseOID])

\* the decoding of a list of Extension: [err, extensions]
extensionsUnmarshal(data) ==
    IF data.kind # "array" \/ \E i \in 1..Len(data.items) : data.items[i].kind # "object"
    THEN [err |-> ErrUnmarshalType]
    ELSE With([i \in 1..Len(data.items) |->
                    ObjectIdentifierUnmarshalJSON(data.items[i].keys.id)], LAMBDA ids :
            IF \E i \in 1..Len(ids) : ids[i].err # NoErr
            THEN [err |-> ids[CHOOSE i \in 1..Len(ids) : ids[i].err # NoErr].err]
            ELSE [err |-> NoErr,
                  extensions |-> [i \in 1..Len(ids) |->
                                    [ID |-> ids[i].oid,
                                     Critical |-> data.items[i].keys.critical,
                                     Value |-> data.items[i].keys.value]]])

\* the decoding of a *NameConstraints: [err, n]
nameConstraintsUnmarshal(data) ==
    IF data.kind # "object" THEN [err |-> ErrUnmarshalType]
    ELSE With(unmarshalMultiString(data.keys.permittedDNSDomains), LAMBDA r :
            IF r.err # NoErr THEN [err |-> r.err]
            ELSE [err |-> NoErr,
                  n |-> <<[Critical |-> data.keys.critical,
                           PermittedDNSDomains |-> r.ms, ExcludedDNSDomains |-> <<>>,
                           PermittedIPRanges |-> <<>>, ExcludedIPRanges |-> <<>>,
                           PermittedEmailAddresses |-> <<>>,
                           ExcludedEmailAddresses |-> <<>>,
                           PermittedURIDomains |-> <<>>, ExcludedURIDomains |-> <<>>]>>])

\* big.Int.SetString(s, 0): an optional sign, then a prefix that selects the
\* base (0b, 0o, 0x, or a leading 0 for base 8; base 10 without one), then
\* digits of the base, which "_" may separate.  [base, body, led]: led tells
\* that a 0 stands before the body, so that a separator may open it
setStringPrefix(s) ==
    IF Len(s) >= 2 /\ s[1] = "0"
    THEN CASE s[2] \in {"b", "B"} -> [base |-> 2, body |-> SliceFrom(s, 2), led |-> TRUE]
           [] s[2] \in {"o", "O"} -> [base |-> 8, body |-> SliceFrom(s, 2), led |-> TRUE]
           [] s[2] \in {"x", "X"} -> [base |-> 16, body |-> SliceFrom(s, 2), led |-> TRUE]
           [] OTHER -> [base |-> 8, body |-> SliceFrom(s, 1), led |-> TRUE]
    ELSE [base |-> 10, body |-> s, led |-> FALSE]

\* every "_" of the body follows a digit, and the body does not end in one
validSeparators(body, led) ==
    /\ \A i \in 1..Len(body) :
            body[i] = "_" => IF i = 1 THEN led ELSE body[i - 1] # "_"
    /\ (body # <<>> => body[Len(body)] # "_")

\* the number the first n digits of d denote in the base
RECURSIVE digitsToNatIn(_, _, _)
digitsToNatIn(d, n, base) ==
    IF n = 0 THEN 0 ELSE digitsToNatIn(d, n - 1, base) * base + HexVal(d[n])

\* [ok, n]
bigIntSetString(s) ==
    LET signed == s # <<>> /\ s[1] \in {"+", "-"}
        neg == signed /\ s[1] = "-"
    IN  With(setStringPrefix(IF signed THEN Tail(s) ELSE s), LAMBDA p :
        With(RemoveAll(p.body, "_"), LAMBDA d :
            IF /\ d # <<>>
               /\ validSeparators(p.body, p.led)
               /\ \A i \in 1..Len(d) : IsHex(d[i]) /\ HexVal(d[i]) < p.base
            THEN With(digitsToNatIn(d, Len(d), p.base), LAMBDA n :
                    [ok |-> TRUE, n |-> IF neg THEN -n ELSE n])
            ELSE [ok |-> FALSE]))

ErrInvalidSerialNumber == "error unmarshaling json: serialNumber is not valid"

\* SerialNumber.UnmarshalJSON: [err, s], s the *big.Int.  A string is parsed
\* by SetString; anything else is decoded as an int64 (the numbers of the
\* model are integers within its range)
SerialNumberUnmarshalJSON(data) ==
    With(maybeString(data), LAMBDA sn :
        IF sn.ok
        THEN With(bigIntSetString(sn.s), LAMBDA b :
                IF b.ok THEN [err |-> NoErr, s |-> <<b.n>>]
                ELSE [err |-> ErrInvalidSerialNumber])
        ELSE IF data.kind = "number" THEN [err |-> NoErr, s |-> <<data.num>>]
        ELSE [err |-> ErrUnmarshalType])

\* the keys of a template that are decoded, in the order of the document
CertificateKeys ==
    <<"subject", "dnsNames", "emailAddresses", "ipAddresses", "uris", "sans",
      "extensions", "keyUsage", "basicConstraints", "nameConstraints", "serialNumber">>

\* the decoding of one key into the Certificate: [err, cert]
decodeKey(key, data, certificate) ==
    CASE key = "subject" ->
            With(SubjectUnmarshalJSON(data), LAMBDA r :
                IF r.err # NoErr THEN [err |-> r.err, cert |-> certificate]
                ELSE [err |-> NoErr, cert |-> [certificate EXCEPT !.Subject = r.name]])
      [] key = "dnsNames" ->
            With(unmarshalMultiString(data), LAMBDA r :
                IF r.err # NoErr THEN [err |-> r.err, cert |-> certificate]
                ELSE [err |-> NoErr, cert |-> [certificate EXCEPT !.DNSNames = r.ms]])
      [] key = "emailAddresses" ->
            With(unmarshalMultiString(data), LAMBDA r :
                IF r.err # NoErr THEN [err |-> r.err, cert |-> certificate]
                ELSE [err |-> NoErr, cert |-> [certificate EXCEPT !.EmailAddresses = r.ms]])
      [] key = "ipAddresses" ->
            With(MultiIPUnmarshalJSON(data), LAMBDA r :
                IF r.err # NoErr THEN [err |-> r.err, cert |-> certificate]
                ELSE [err |-> NoErr, cert |-> [certificate EXCEPT !.IPAddresses = r.ips]])
      [] key = "uris" ->
            With(MultiURLUnmarshalJSON(data), LAMBDA r :
                IF r.err # NoErr THEN [err |-> r.err, cert |-> certificate]
                ELSE [err |-> NoErr, cert |-> [certificate EXCEPT !.URIs = r.urls]])
      [] key = "sans" ->
            With(sansUnmarshal(data), LAMBDA r :
                IF r.err # NoErr THEN [err |-> r.err, cert |-> certificate]
                ELSE [err |-> NoErr, cert |-> [certificate EXCEPT !.SANs = r.sans]])
      [] key = "extensions" ->
            With(extensionsUnmarshal(data), LAMBDA r :
                IF r.err # NoErr THEN [err |-> r.err, cert |-> certificate]
                ELSE [err |-> NoErr, cert |-> [certificate EXCEPT !.Extensions = r.extensions]])
      [] key = "keyUsage" ->
            With(KeyUsageUnmarshalJSON(data), LAMBDA r :
                IF r.err # NoErr THEN [err |-> r.err, cert |-> certificate]
                ELSE [err |-> NoErr, cert |-> [certificate EXCEPT !.KeyUsage = r.k]])
      [] key = "basicConstraints" ->
            With(basicConstraintsUnmarshal(data), LAMBDA r :
                IF r.err # NoErr THEN [err |-> r.err, cert |-> certificate]
                ELSE [err |-> NoErr, cert |-> [certificate EXCEPT !.BasicConstraints = r.b]])
      [] key = "nameConstraints" ->
            With(nameConstraintsUnmarshal(data), LAMBDA r :
                IF r.err # NoErr THEN [err |-> r.err, cert |-> certificate]
                ELSE [err |-> NoErr, cert |-> [certificate EXCEPT !.NameConstraints = r.n]])
      [] key = "serialNumber" ->
            With(SerialNumberUnmarshalJSON(data), LAMBDA r :
                IF r.err # NoErr THEN [err |-> r.err, cert |-> certificate]
                ELSE [err |-> NoErr, cert |-> [certificate EXCEPT !.SerialNumber = r.s]])

\* json.Decoder.Decode into a Certificate, from the i-th key on: the keys
\* before a key that fails are decoded into cert, the others are not
RECURSIVE decodeFrom(_, _, _)
decodeFrom(doc, i, certificate) ==
    IF i > Len(CertificateKeys) THEN [err |-> NoErr, cert |-> certificate]
    ELSE IF doc[CertificateKeys[i]] = <<>> THEN decodeFrom(doc, i + 1, certificate)
    ELSE With(decodeKey(CertificateKeys[i], doc[CertificateKeys[i]][1], certificate), LAMBDA r :
            IF r.err # NoErr THEN r ELSE decodeFrom(doc, i + 1, r.cert))

\* json.NewDecoder(o.CertBuffer).Decode(&cert), cert the zero Certificate
Decode(doc) == decodeFrom(doc, 1, ZeroCertificate)

(***************************************************************************)
(* NewCertificate.  The request is a record of what NewCertificate reads   *)
(* of it: the outcome of CheckSignature, the public key and what the       *)
(* certificate without a template is made of.  The options are a record of *)
(* the outcome of apply and of the template it leaves in CertBuffer.       *)
(***************************************************************************)
ErrValidatingRequest == "error validating certificate request"
ErrApplyingOptions == "error applying options"
ErrUnmarshalingCertificate == "error unmarshaling certificate"

\* a return of an error together with the certificate at hand
returnPartial(certificate, e) == [cert |-> <<certificate>>, err |-> e]

\* return nil, err
returnError(certificate, e) == [cert |-> <<>>, err |-> e]

\* return &cert, nil
returnCertificate(certificate) == [cert |-> <<certificate>>, err |-> NoErr]

\* Options.apply: [err, CertBuffer]
apply(request, options) ==
    IF options.ApplyOK THEN [err |-> NoErr, CertBuffer |-> options.CertBuffer]
    ELSE [err |-> ErrApplyingOptions]

\* newCertificateRequest(cr).GetLeafCertificate(): the subject and the SANs
\* of the request, with its key
GetLeafCertificate(request) ==
    [ZeroCertificate EXCEPT !.Subject = request.Subject, !.DNSNames = request.DNSNames,
                            !.EmailAddresses = request.EmailAddresses,
                            !.IPAddresses = request.IPAddresses, !.URIs = request.URIs,
                            !.SignatureAlgorithm = request.SignatureAlgorithm,
                            !.PublicKeyAlgorithm = request.PublicKeyAlgorithm,
                            !.PublicKey = request.PublicKey]

\* cr.CheckSignature() and the return of its error
CheckSignature ==
    /\ pc = "NewCertificate"
    /\ IF cr.SignatureOK
       THEN pc' = "apply" /\ UNCHANGED <<ret, err>>
       ELSE \E r \in {returnError(template, ErrValidatingRequest)} :
                ret' = r.cert /\ err' = r.err /\ pc' = "failed"
    /\ UNCHANGED <<cr, opts, template, cert, idx, ext, signer, mem>>

\* new(Options).apply(cr, opts) and the return of its error
ApplyOptions ==
    /\ pc = "apply"
    /\ IF apply(cr, opts).err = NoErr
       THEN pc' = "template" /\ UNCHANGED <<ret, err>>
       ELSE \E r \in {returnError(template, apply(cr, opts).err)} :
                ret' = r.cert /\ err' = r.err /\ pc' = "failed"
    /\ UNCHANGED <<cr, opts, template, cert, idx, ext, signer, mem>>

\* without a template, the certificate of the request is returned, its
\* signature algorithm cleared
WithoutTemplate ==
    /\ pc = "template"
    /\ apply(cr, opts).CertBuffer = <<>>
    /\ template' = [GetLeafCertificate(cr) EXCEPT !.SignatureAlgorithm = 0]
    /\ \E r \in {returnCertificate(template')} : ret' = r.cert /\ err' = r.err
    /\ pc' = "GetCertificate"
    /\ UNCHANGED <<cr, opts, cert, idx, ext, signer, mem>>

\* with a template, it is decoded into cert; an error of the decoder is
\* returned
DecodeTemplate ==
    /\ pc = "template"
    /\ apply(cr, opts).CertBuffer # <<>>
    /\ \E d \in {Decode(apply(cr, opts).CertBuffer[1])} :
          /\ template' = d.cert
          /\ IF d.err = NoErr
             THEN pc' = "complete" /\ UNCHANGED <<ret, err>>
             ELSE \E r \in {returnError(d.cert, ErrUnmarshalingCertificate)} :
                      ret' = r.cert /\ err' = r.err /\ pc' = "failed"
    /\ UNCHANGED <<cr, opts, cert, idx, ext, signer, mem>>

\* a completion that keeps the key fields as the decoder left them
CompleteWithDecodedKey ==
    /\ pc = "complete"
    /\ \E r \in {returnCertificate(template)} : ret' = r.cert /\ err' = r.err
    /\ pc' = "GetCertificate"
    /\ UNCHANGED <<cr, opts, template, cert, idx, ext, signer, mem>>

\* the decoded certificate is completed with the key of the request and
\* returned
CompleteWithRequest ==
    /\ pc = "complete"
    /\ template' = [template EXCEPT !.PublicKey = cr.PublicKey,
                                    !.PublicKeyAlgorithm = cr.PublicKeyAlgorithm]
    /\ \E r \in {returnCertificate(template')} : ret' = r.cert /\ err' = r.err
    /\ pc' = "GetCertificate"
    /\ UNCHANGED <<cr, opts, cert, idx, ext, signer, mem>>

(***************************************************************************)
(* GetCertificate, called on the certificate NewCertificate returned.      *)
(* Each Set is a step, so that what a later step does to the fields an     *)
(* earlier one has filled shows in the states.                             *)
(***************************************************************************)
\* cert := new(x509.Certificate), the key and the SANs that are directly
\* converted
NewX509Certificate ==
    /\ pc = "GetCertificate"
    /\ ret # <<>>
    /\ cert' = [ZeroX509Certificate EXCEPT
                    !.PublicKey = ret[1].PublicKey,
                    !.PublicKeyAlgorithm = ret[1].PublicKeyAlgorithm,
                    !.DNSNames = ret[1].DNSNames,
                    !.EmailAddresses = ret[1].EmailAddresses,
                    !.IPAddresses = ret[1].IPAddresses,
                    !.URIs = ret[1].URIs]
    /\ idx' = 1
    /\ pc' = "SANs"
    /\ UNCHANGED <<cr, opts, template, ret, err, ext, signer, mem>>

\* for _, san := range c.SANs { san.Set(cert) }: one turn of the loop; a
\* panic of Set ends the program
SetSAN ==
    /\ pc = "SANs"
    /\ idx <= Len(ret[1].SANs)
    /\ \E r \in {SubjectAlternativeNameSet(ret[1].SANs[idx], cert)} :
          IF r.panic
          THEN pc' = "panic" /\ UNCHANGED <<cert, idx>>
          ELSE cert' = r.c /\ idx' = idx + 1 /\ pc' = "SANs"
    /\ UNCHANGED <<cr, opts, template, ret, err, ext, signer, mem>>

SetSubject ==
    /\ pc = "SANs"
    /\ idx > Len(ret[1].SANs)
    /\ cert' = SubjectSet(ret[1].Subject, cert)
    /\ pc' = "KeyUsage"
    /\ UNCHANGED <<cr, opts, template, ret, err, idx, ext, signer, mem>>

SetKeyUsage ==
    /\ pc = "KeyUsage"
    /\ cert' = KeyUsageSet(ret[1].KeyUsage, cert)
    /\ pc' = "ExtKeyUsage"
    /\ UNCHANGED <<cr, opts, template, ret, err, idx, ext, signer, mem>>

SetExtKeyUsage ==
    /\ pc = "ExtKeyUsage"
    /\ cert' = ExtKeyUsageSet(ret[1].ExtKeyUsage, cert)
    /\ pc' = "UnknownExtKeyUsage"
    /\ UNCHANGED <<cr, opts, template, ret, err, idx, ext, signer, mem>>

SetUnknownExtKeyUsage ==
    /\ pc = "UnknownExtKeyUsage"
    /\ cert' = UnknownExtKeyUsageSet(ret[1].UnknownExtKeyUsage, cert)
    /\ pc' = "SubjectKeyID"
    /\ UNCHANGED <<cr, opts, template, ret, err, idx, ext, signer, mem>>

SetSubjectKeyID ==
    /\ pc = "SubjectKeyID"
    /\ cert' = SubjectKeyIDSet(ret[1].SubjectKeyID, cert)
    /\ pc' = "AuthorityKeyID"
    /\ UNCHANGED <<cr, opts, template, ret, err, idx, ext, signer, mem>>

SetAuthorityKeyID ==
    /\ pc = "AuthorityKeyID"
    /\ cert' = AuthorityKeyIDSet(ret[1].AuthorityKeyID, cert)
    /\ pc' = "OCSPServer"
    /\ UNCHANGED <<cr, opts, template, ret, err, idx, ext, signer, mem>>

SetOCSPServer ==
    /\ pc = "OCSPServer"
    /\ cert' = OCSPServerSet(ret[1].OCSPServer, cert)
    /\ pc' = "IssuingCertificateURL"
    /\ UNCHANGED <<cr, opts, template, ret, err, idx, ext, signer, mem>>

SetIssuingCertificateURL ==
    /\ pc = "IssuingCertificateURL"
    /\ cert' = IssuingCertificateURLSet(ret[1].IssuingCertificateURL, cert)
    /\ pc' = "CRLDistributionPoints"
    /\ UNCHANGED <<cr, opts, template, ret, err, idx, ext, signer, mem>>

SetCRLDistributionPoints ==
    /\ pc = "CRLDistributionPoints"
    /\ cert' = CRLDistributionPointsSet(ret[1].CRLDistributionPoints, cert)
    /\ pc' = "PolicyIdentifiers"
    /\ UNCHANGED <<cr, opts, template, ret, err, idx, ext, signer, mem>>

SetPolicyIdentifiers ==
    /\ pc = "PolicyIdentifiers"
    /\ cert' = PolicyIdentifiersSet(ret[1].PolicyIdentifiers, cert)
    /\ pc' = "BasicConstraints"
    /\ UNCHANGED <<cr, opts, template, ret, err, idx, ext, signer, mem>>

\* if c.BasicConstraints != nil { c.BasicConstraints.Set(cert) }
SetBasicConstraints ==
    /\ pc = "BasicConstraints"
    /\ cert' = IF ret[1].BasicConstraints # <<>>
               THEN BasicConstraintsSet(ret[1].BasicConstraints[1], cert)
               ELSE cert
    /\ pc' = "NameConstraints"
    /\ UNCHANGED <<cr, opts, template, ret, err, idx, ext, signer, mem>>

\* if c.NameConstraints != nil { c.NameConstraints.Set(cert) }
SetNameConstraints ==
    /\ pc = "NameConstraints"
    /\ cert' = IF ret[1].NameConstraints # <<>>
               THEN NameConstraintsSet(ret[1].NameConstraints[1], cert)
               ELSE cert
    /\ idx' = 1
    /\ pc' = "Extensions"
    /\ UNCHANGED <<cr, opts, template, ret, err, ext, signer, mem>>

\* for _, e := range c.Extensions { e.Set(cert) }: one turn of the loop
SetExtension ==
    /\ pc = "Extensions"
    /\ idx <= Len(ret[1].Extensions)
    /\ cert' = ExtensionSet(ret[1].Extensions[idx], cert)
    /\ idx' = idx + 1
    /\ UNCHANGED <<pc, cr, opts, template, ret, err, ext, signer, mem>>

SetSerialNumber ==
    /\ pc = "Extensions"
    /\ idx > Len(ret[1].Extensions)
    /\ cert' = SerialNumberSet(ret[1].SerialNumber, cert)
    /\ pc' = "SignatureAlgorithm"
    /\ UNCHANGED <<cr, opts, template, ret, err, idx, ext, signer, mem>>

\* the last Set, and the return of cert
SetSignatureAlgorithm ==
    /\ pc = "SignatureAlgorithm"
    /\ cert' = SignatureAlgorithmSet(ret[1].SignatureAlgorithm, cert)
    /\ pc' = "done"
    /\ UNCHANGED <<cr, opts, template, ret, err, idx, ext, signer, mem>>

V_country == <<"U", "S">>
V_org == <<"A", "c", "m", "e">>
V_org2 == <<"O", "p", "s">>
V_kuSnake == <<"d", "i", "g", "i", "t", "a", "l", "_", "s", "i", "g", "n", "a", "t", "u", "r", "e">>
V_kuBogus == <<"b", "o", "g", "u", "s">>
V_domain == <<".", "a", ".", "i", "o">>
V_oidExt == <<"1", ".", "2", ".", "3", ".", "4", ".", "5">>
V_opaque == <<"0x05", "0x00">>

\* the largest path length of a basicConstraints of an input, and the
\* smallest negated
MaxPathLenBound == 2

\* the largest serial number a random source gives or a template declares
MaxSerial == 2

\* a template without any key
EmptyDocument ==
    [subject |-> <<>>, dnsNames |-> <<>>, emailAddresses |-> <<>>,
     ipAddresses |-> <<>>, uris |-> <<>>, sans |-> <<>>, extensions |-> <<>>,
     keyUsage |-> <<>>, basicConstraints |-> <<>>, nameConstraints |-> <<>>,
     serialNumber |-> <<>>]

JStrings(values) == JArray([i \in 1..Len(values) |-> JString(values[i])])

\* the SANs of the templates that are assembled
AssembledSANs ==
    {SubjectAlternativeName(DNSType, V_dns),
     SubjectAlternativeName(T_DNS, V_dns2),
     SubjectAlternativeName(EmailType, V_email),
     SubjectAlternativeName(IPType, V_ip4),
     SubjectAlternativeName(IPType, V_ipBad),
     SubjectAlternativeName(URIType, V_uri),
     SubjectAlternativeName(URIType, V_uriBad),
     SubjectAlternativeName(AutoType, V_dns3),
     SubjectAlternativeName(<<>>, V_email2),
     SubjectAlternativeName(<<>>, V_ip6),
     SubjectAlternativeName(AutoType, V_uriUpper),
     SubjectAlternativeName(RegisteredIDType, V_oid)}

JSANs(sans) == JArray([i \in 1..Len(sans) |-> JObject([type |-> sans[i].Type,
                                                       value |-> sans[i].Value])])

\* templates of SANs, without and with the shorthand keys
SANDocuments ==
    {[EmptyDocument EXCEPT !.sans = <<JSANs(l)>>] : l \in SeqsUpTo(AssembledSANs, MaxSANs)}
    \cup {[EmptyDocument EXCEPT !.sans = <<JSANs(l)>>,
                                !.dnsNames = <<JStrings(<<V_dns2, V_dns3>>)>>,
                                !.emailAddresses = <<JString(V_email2)>>,
                                !.ipAddresses = <<JStrings(<<V_ip4b, V_ip6>>)>>,
                                !.uris = <<JString(V_uriUpper)>>] :
            l \in SeqsUpTo(AssembledSANs, MaxSANs)}

\* templates of key usages: none, an empty list, names, an unknown name and
\* a value of another shape
KeyUsageDocuments ==
    {[EmptyDocument EXCEPT !.dnsNames = <<JString(V_dns)>>, !.keyUsage = k] :
        k \in {<<>>, <<JStrings(<<>>)>>, <<JString(V_kuSnake)>>,
               <<JStrings(<<N_DigitalSignature, N_CertSign>>)>>,
               <<JStrings(<<N_CRLSign, V_kuBogus>>)>>, <<JNumber(1)>>}}

\* templates of basic constraints
BasicConstraintsDocuments ==
    {[EmptyDocument EXCEPT !.basicConstraints =
            <<JObject([isCA |-> isCA, maxPathLen |-> maxPathLen])>>] :
        isCA \in BOOLEAN, maxPathLen \in (-MaxPathLenBound)..MaxPathLenBound}

\* templates of subjects: a string, an object and a value of another shape
SubjectDocuments ==
    {[EmptyDocument EXCEPT !.subject = <<s>>] :
        s \in {JString(V_cn),
               JObject([country |-> <<JString(V_country)>>,
                        organization |-> <<JStrings(<<V_org, V_org2>>)>>,
                        organizationalUnit |-> <<>>,
                        commonName |-> <<JString(V_cn)>>]),
               JNumber(1)}}

\* templates of extensions and of name constraints
ExtensionDocuments ==
    {[EmptyDocument EXCEPT !.extensions = <<JArray(e)>>, !.nameConstraints = n,
                           !.basicConstraints = b] :
        e \in {<<JObject([id |-> JString(V_oidExt), critical |-> TRUE,
                          value |-> V_opaque])>>,
               <<JObject([id |-> JString(V_oidExt), critical |-> FALSE,
                          value |-> V_opaque]),
                 JObject([id |-> JString(V_oid), critical |-> TRUE, value |-> <<>>])>>,
               <<JObject([id |-> JString(V_oidBad), critical |-> FALSE,
                          value |-> <<>>])>>},
        n \in {<<>>, <<JObject([critical |-> TRUE,
                                permittedDNSDomains |-> JString(V_domain)])>>},
        b \in {<<>>, <<JObject([isCA |-> TRUE, maxPathLen |-> 0])>>}}

SN_hex == <<"0", "x", "1", "0">>
SN_bin == <<"0", "b", "1", "0", "1">>
SN_oct == <<"0", "o", "1", "7">>
SN_dec == <<"1", "0">>
SN_legacy == <<"0", "1", "7">>
SN_sep == <<"1", "_", "0">>
SN_neg == <<"-", "7">>
SN_negHex == <<"-", "0", "X", "1", "0">>
SN_plus == <<"+", "5">>
SN_noDigits == <<"0", "x">>
SN_badDigit == <<"0", "8">>
SN_badSep == <<"_", "1">>

\* templates of serial numbers: strings in every base, with a sign, and
\* malformed; numbers; a value of another shape
SerialNumberDocuments ==
    {[EmptyDocument EXCEPT !.serialNumber = <<s>>, !.dnsNames = <<JString(V_dns)>>] :
        s \in {JString(v) : v \in {SN_hex, SN_bin, SN_oct, SN_dec, SN_legacy, SN_sep,
                                   SN_neg, SN_negHex, SN_plus, SN_noDigits,
                                   SN_badDigit, SN_badSep, <<>>, <<"0">>}}
              \cup {JNumber(n) : n \in (-MaxSerial)..MaxSerial}
              \cup {JNumber(10), JBool(TRUE)}}

V_subjectCN == <<"C", "N", "=">> \o V_cn

\* the template of the end-to-end example: a subject given as a string and
\* one DNS name
EndToEndDocument ==
    [EmptyDocument EXCEPT !.subject = <<JString(V_subjectCN)>>,
                          !.dnsNames = <<JStrings(<<V_cn>>)>>]

Documents ==
    SANDocuments \cup KeyUsageDocuments \cup BasicConstraintsDocuments
        \cup SubjectDocuments \cup ExtensionDocuments \cup SerialNumberDocuments
        \cup {EndToEndDocument}

\* the requests: the signature checks or not
Request(ok) ==
    [SignatureOK |-> ok, PublicKey |-> "K", PublicKeyAlgorithm |-> 1,
     SignatureAlgorithm |-> 4,
     Subject |-> [ZeroName EXCEPT !.CommonName = V_cn],
     DNSNames |-> <<V_dns>>, EmailAddresses |-> <<>>,
     IPAddresses |-> <<ParseIP(V_ip4)>>, URIs |-> <<>>]

Options(ok, buffer) == [ApplyOK |-> ok, CertBuffer |-> buffer]

\* a request and options: every template with a request that checks and
\* options that apply, and the failures with and without a template
Inputs ==
    {[cr |-> Request(TRUE), opts |-> Options(TRUE, <<d>>)] : d \in Documents}
    \cup {[cr |-> Request(ok), opts |-> Options(applies, b)] :
            ok \in BOOLEAN, applies \in BOOLEAN,
            b \in {<<>>, <<[EmptyDocument EXCEPT !.dnsNames = <<JString(V_dns)>>]>>}}

(***************************************************************************)
(* The specification: NewCertificate is called on a request and options,   *)
(* and GetCertificate on the certificate it returns.                       *)
(***************************************************************************)
Init ==
    /\ pc = "NewCertificate"
    /\ \E in \in Inputs : cr = in.cr /\ opts = in.opts
    /\ template = ZeroCertificate
    /\ ret = <<>>
    /\ err = NoErr
    /\ cert = ZeroX509Certificate
    /\ idx = 0
    /\ ext = Nil
    /\ signer = <<>>
    /\ mem = <<>>

Next ==
    \/ CheckSignature
    \/ ApplyOptions
    \/ WithoutTemplate
    \/ DecodeTemplate
    \/ CompleteWithRequest
    \/ NewX509Certificate
    \/ SetSAN
    \/ SetSubject
    \/ SetKeyUsage
    \/ SetExtKeyUsage
    \/ SetUnknownExtKeyUsage
    \/ SetSubjectKeyID
    \/ SetAuthorityKeyID
    \/ SetOCSPServer
    \/ SetIssuingCertificateURL
    \/ SetCRLDistributionPoints
    \/ SetPolicyIdentifiers
    \/ SetBasicConstraints
    \/ SetNameConstraints
    \/ SetExtension
    \/ SetSerialNumber
    \/ SetSignatureAlgorithm

Spec == Init /\ [][Next]_vars

(***************************************************************************)
(* Properties of createSubjectAltNameExtension, stated on the states of    *)
(* SpecSAN in which the call has returned.                                 *)
(***************************************************************************)
SANDone == pc = "sanDone"
SANSucceeded == SANDone /\ err = NoErr

\* the error classes of the encoder
UnsupportedSANType == {ErrUnimplementedSAN, ErrUnsupportedSAN}
InvalidOtherNameValue == {ErrInvalidInt, ErrInvalidOID}

RemoveAt(s, i) == SubSeq(s, 1, i - 1) \o SubSeq(s, i + 1, Len(s))

\* the GeneralNames the shorthand fields stand for
GeneralNamesOfStrings(tag, values) ==
    [i \in 1..Len(values) |-> [Tag |-> tag, Class |-> 2, Bytes |-> values[i]]]

GeneralNamesOfURIs(uris) ==
    [i \in 1..Len(uris) |-> [Tag |-> 6, Class |-> 2, Bytes |-> URLString(uris[i])]]

GeneralNamesOfIPs(ips) ==
    [i \in 1..Len(ips) |->
        [Tag |-> 7, Class |-> 2, IP |-> IF To4(ips[i]) # <<>> THEN To4(ips[i]) ELSE ips[i]]]

\* the GeneralNames each explicit entry adds when it is encoded alone
GeneralNamesOfSANs(sans) == Concat([i \in 1..Len(sans) |-> rawValuesOf(sans[i]).raw])

\* C1: when the encoder succeeds, the GeneralNames are those of the explicit
\* SANs in input order, then the DNS names, the email addresses, the URIs and
\* the IP addresses of the shorthand fields; an entry that is dropped adds
\* nothing and leaves the order of the others as it was.
C1_WorkingListOrder ==
    SANSucceeded =>
        ext.Value = GeneralNamesOfSANs(template.SANs)
                        \o GeneralNamesOfStrings(2, template.DNSNames)
                        \o GeneralNamesOfStrings(1, template.EmailAddresses)
                        \o GeneralNamesOfURIs(template.URIs)
                        \o GeneralNamesOfIPs(template.IPAddresses)

\* an ip or registeredID entry whose value does not parse
IsDroppedValue(san) ==
    \/ san.Type = IPType /\ ParseIP(san.Value) = <<>>
    \/ san.Type = RegisteredIDType /\ ~parseObjectIdentifier(san.Value).ok

C1_Witness ==
    /\ SANSucceeded
    /\ Len(template.SANs) = 2
    /\ IsDroppedValue(template.SANs[1])
    /\ template.SANs[2].Type = DNSType
    /\ template.DNSNames # <<>> /\ template.EmailAddresses # <<>>
    /\ template.URIs # <<>> /\ template.IPAddresses # <<>>
    /\ Len(ext.Value) = 7

\* the result, as <<err, ext>>, for the template without its i-th SAN
ResultWithout(i) ==
    createSubjectAltNameExtension([template EXCEPT !.SANs = RemoveAt(@, i)])

SameResult(r) ==
    /\ err = r.err
    /\ err = NoErr => ext = r.ext

HasPrefix(s, prefix) == Len(s) >= Len(prefix) /\ SubSeq(s, 1, Len(prefix)) = prefix

\* an OtherName entry whose int; or oid; payload does not parse
IsMalformedOtherName(san) ==
    /\ san.Type # <<>> /\ parseObjectIdentifier(san.Type).ok
    /\ \/ /\ HasPrefix(san.Value, S_int \o <<";">>)
          /\ ~Atoi(SliceFrom(san.Value, 4)).ok
       \/ /\ HasPrefix(san.Value, S_oid \o <<";">>)
          /\ ~parseObjectIdentifier(SliceFrom(san.Value, 4)).ok

\* C2: an ip entry whose value is no IP address and a registeredID entry
\* whose value is no dotted OID add nothing and raise nothing: the result is
\* the result for the list without the entry.  An OtherName entry with a
\* malformed int; or oid; payload makes the encoding fail.
C2_SilentDrop ==
    SANDone =>
        \A i \in 1..Len(template.SANs) :
            /\ IsDroppedValue(template.SANs[i]) => SameResult(ResultWithout(i))
            /\ IsMalformedOtherName(template.SANs[i]) => err # NoErr /\ ext = Nil

C2_Witness ==
    /\ SANSucceeded
    /\ Len(template.SANs) = 2
    /\ template.SANs[1].Type = IPType /\ IsDroppedValue(template.SANs[1])
    /\ template.SANs[2].Type = RegisteredIDType /\ IsDroppedValue(template.SANs[2])
    /\ template.DNSNames # <<>>
    /\ ext.Value = GeneralNamesOfStrings(2, template.DNSNames)
                       \o GeneralNamesOfStrings(1, template.EmailAddresses)
                       \o GeneralNamesOfURIs(template.URIs)
                       \o GeneralNamesOfIPs(template.IPAddresses)

\* a type outside the vocabulary that is no dotted OID either
IsUnsupportedType(type) ==
    /\ type # <<>>
    /\ type \notin {EmailType, DNSType, URIType, IPType, RegisteredIDType}
    /\ ~parseObjectIdentifier(type).ok

\* the places of the complete list that hold an unsupported type
UnsupportedAt(sans) == {i \in 1..Len(sans) : IsUnsupportedType(sans[i].Type)}

\* C3, as stated: whenever the list holds an entry of an unsupported type,
\* at any place, the encoder fails with UnsupportedSANType and returns no
\* extension; an entry with the empty type is dropped without error.
C3_AsStated ==
    SANDone =>
        /\ UnsupportedAt(allSANs(template)) # {} =>
                err \in UnsupportedSANType /\ ext = Nil
        /\ \A i \in 1..Len(template.SANs) :
                template.SANs[i].Type = <<>> => SameResult(ResultWithout(i))

\* C3, amended: whenever the list holds an entry of an unsupported type the
\* encoder fails and returns no extension; the error is UnsupportedSANType
\* unless an entry before the first unsupported one has failed with an error
\* of its own.  An entry with the empty type is dropped without error.
C3_UnsupportedType ==
    SANDone =>
        /\ UnsupportedAt(allSANs(template)) # {} =>
                /\ err # NoErr
                /\ ext = Nil
                /\ \/ err \in UnsupportedSANType
                   \/ \E j \in 1..Len(template.SANs) :
                        /\ \A i \in UnsupportedAt(allSANs(template)) : j < i
                        /\ rawValuesOf(template.SANs[j]).err = err
        /\ \A i \in 1..Len(template.SANs) :
                template.SANs[i].Type = <<>> => SameResult(ResultWithout(i))

C3_Witness ==
    /\ SANDone
    /\ Len(template.SANs) = 2
    /\ template.SANs[1].Type = DNSType
    /\ template.SANs[2].Type = X400AddressType
    /\ err \in UnsupportedSANType
    /\ ext = Nil

\* the kind and the payload of a value of the form <kind>;<payload>
KindOf(value) == SubSeq(value, 1, IndexOf(value, ";") - 1)
PayloadOf(value) == SubSeq(value, IndexOf(value, ";") + 1, Len(value))

\* the ASN.1 string type named by a kind
StringTypeOf(kind) ==
    CASE kind = S_utf8 -> "UTF8String"
      [] kind = S_ia5 -> "IA5String"
      [] kind = S_numeric -> "NumericString"
      [] kind = S_printable -> "PrintableString"

\* the otherName GeneralName with type-id oid and the given inner value
OtherNameOf(oid, value) ==
    [Tag |-> 0, Class |-> 2, OtherName |-> [OID |-> oid, Value |-> value]]

\* the first explicit SAN is an OtherName: no entry precedes it
FirstIsOtherName ==
    /\ template.SANs # <<>>
    /\ template.SANs[1].Type # <<>>
    /\ parseObjectIdentifier(template.SANs[1].Type).ok

\* the encoder has emitted the otherName of type-id T with this inner value
EmitsOtherName(value) ==
    /\ err = NoErr
    /\ ext.Value # <<>>
    /\ ext.Value[1] = OtherNameOf(parseObjectIdentifier(template.SANs[1].Type).oid, value)

\* the value carries one of the six kinds before its first ";"
HasKind(value) == Contains(value, ";") /\ KindOf(value) \in ValueKinds

\* C4, as stated: for an entry whose type is a dotted OID T and whose value
\* is <kind>;<payload>, kind int emits the INTEGER of the payload or fails
\* with InvalidOtherNameValue, kind oid emits the OID of the payload or fails
\* with InvalidOtherNameValue, and the string kinds emit the payload in the
\* ASN.1 string type of that name.
C4_AsStated ==
    (SANDone /\ FirstIsOtherName /\ HasKind(template.SANs[1].Value)) =>
        LET kind == KindOf(template.SANs[1].Value)
            payload == PayloadOf(template.SANs[1].Value)
        IN  CASE kind = S_int ->
                    IF Atoi(payload).ok
                    THEN EmitsOtherName([Type |-> "INTEGER",
                                         Int |-> [neg |-> Atoi(payload).neg,
                                                  mag |-> Atoi(payload).mag]])
                    ELSE err \in InvalidOtherNameValue
              [] kind = S_oid ->
                    IF parseObjectIdentifier(payload).ok
                    THEN EmitsOtherName([Type |-> "OBJECT IDENTIFIER",
                                         OID |-> parseObjectIdentifier(payload).oid])
                    ELSE err \in InvalidOtherNameValue
              [] OTHER ->
                    EmitsOtherName([Type |-> StringTypeOf(kind), Str |-> payload])

\* C5, as stated: for an entry whose type is a dotted OID and whose value
\* has no ";" or has before its first ";" a text that is no kind, the
\* encoder emits the whole value as a printable string: it never fails and
\* never strips the prefix.
C5_AsStated ==
    (SANDone /\ FirstIsOtherName /\ ~HasKind(template.SANs[1].Value)) =>
        EmitsOtherName([Type |-> "PrintableString", Str |-> template.SANs[1].Value])

\* every entry of the complete list is dropped
AllDropped(sans) ==
    \A i \in 1..Len(sans) : sans[i].Type = <<>> \/ IsDroppedValue(sans[i])

RECURSIVE setSANsFrom(_, _, _)
setSANsFrom(sans, i, c) ==
    IF i > Len(sans) THEN [panic |-> FALSE, c |-> c]
    ELSE With(SubjectAlternativeNameSet(sans[i], c), LAMBDA r :
            IF r.panic THEN r ELSE setSANsFrom(sans, i + 1, r.c))

\* the loop over c.Extensions from the i-th on
RECURSIVE setExtensionsFrom(_, _, _)
setExtensionsFrom(extensions, i, c) ==
    IF i > Len(extensions) THEN c
    ELSE With(ExtensionSet(extensions[i], c), LAMBDA next :
            setExtensionsFrom(extensions, i + 1, next))

\* what follows the SANs
setAfterSANs(t, c) ==
    With(PolicyIdentifiersSet(t.PolicyIdentifiers,
         CRLDistributionPointsSet(t.CRLDistributionPoints,
         IssuingCertificateURLSet(t.IssuingCertificateURL,
         OCSPServerSet(t.OCSPServer,
         AuthorityKeyIDSet(t.AuthorityKeyID,
         SubjectKeyIDSet(t.SubjectKeyID,
         UnknownExtKeyUsageSet(t.UnknownExtKeyUsage,
         ExtKeyUsageSet(t.ExtKeyUsage,
         KeyUsageSet(t.KeyUsage,
         SubjectSet(t.Subject, c)))))))))), LAMBDA c1 :
    With(IF t.BasicConstraints # <<>>
         THEN BasicConstraintsSet(t.BasicConstraints[1], c1) ELSE c1, LAMBDA c2 :
    With(IF t.NameConstraints # <<>>
         THEN NameConstraintsSet(t.NameConstraints[1], c2) ELSE c2, LAMBDA c3 :
    With(setExtensionsFrom(t.Extensions, 1, c3), LAMBDA c4 :
        SignatureAlgorithmSet(t.SignatureAlgorithm,
                              SerialNumberSet(t.SerialNumber, c4))))))

\* GetCertificate: [panic, cert]
GetCertificate(t) ==
    With(setSANsFrom(t.SANs, 1,
                     [ZeroX509Certificate EXCEPT
                         !.PublicKey = t.PublicKey,
                         !.PublicKeyAlgorithm = t.PublicKeyAlgorithm,
                         !.DNSNames = t.DNSNames,
                         !.EmailAddresses = t.EmailAddresses,
                         !.IPAddresses = t.IPAddresses,
                         !.URIs = t.URIs]), LAMBDA r :
        IF r.panic THEN [panic |-> TRUE, cert |-> r.c]
        ELSE [panic |-> FALSE, cert |-> setAfterSANs(t, r.c)])

\* the steps of GetCertificate give what the function gives
StepsGiveGetCertificate ==
    /\ pc = "done" => ~GetCertificate(ret[1]).panic /\ cert = GetCertificate(ret[1]).cert
    /\ pc = "panic" => GetCertificate(ret[1]).panic

(***************************************************************************)
(* Properties of NewCertificate and GetCertificate, stated on the states   *)
(* of Spec.                                                                *)
(***************************************************************************)
\* the positions of GetCertificate after the loop over the SANs
AfterSANs ==
    {"KeyUsage", "ExtKeyUsage", "UnknownExtKeyUsage", "SubjectKeyID", "AuthorityKeyID",
     "OCSPServer", "IssuingCertificateURL", "CRLDistributionPoints",
     "PolicyIdentifiers", "BasicConstraints", "NameConstraints", "Extensions",
     "SignatureAlgorithm", "done"}

\* the positions after the basic constraints are set
AfterBasicConstraints == {"NameConstraints", "Extensions", "SignatureAlgorithm", "done"}

\* the values of the SANs that satisfy Test, in their order
ValuesOf(sans, Test(_)) ==
    LET selected == SelectSeq(sans, Test) IN
    [i \in 1..Len(selected) |-> selected[i].Value]

MapParseIP(values) == [i \in 1..Len(values) |-> ParseIP(values[i])]
MapURL(values) == [i \in 1..Len(values) |-> urlParse(values[i]).url]

GuessedType(value) ==
    IF ParseIP(value) # <<>> THEN IPType
    ELSE IF urlParse(value).ok /\ urlParse(value).url.Scheme # <<>> THEN URIType
    ELSE IF Contains(value, "@") THEN EmailType
    ELSE DNSType

\* the type a SAN is set as: its type in lower case, guessed when that is
\* "" or auto
EffectiveType(s) ==
    IF ToLower(s.Type) \in {<<>>, AutoType} THEN GuessedType(s.Value) ELSE ToLower(s.Type)

C8_BasicConstraintsPolicy ==
    /\ (pc \in AfterBasicConstraints /\ ret[1].BasicConstraints # <<>>) =>
            LET b == ret[1].BasicConstraints[1] IN
            /\ cert.BasicConstraintsValid
            /\ cert.IsCA = b.IsCA
            /\ ~b.IsCA => (cert.MaxPathLen = 0 /\ ~cert.MaxPathLenZero)
            /\ (b.IsCA /\ b.MaxPathLen = 0) => (cert.MaxPathLen = 0 /\ cert.MaxPathLenZero)
            /\ (b.IsCA /\ b.MaxPathLen < 0) => (cert.MaxPathLen = -1 /\ ~cert.MaxPathLenZero)
            /\ (b.IsCA /\ b.MaxPathLen > 0) =>
                    (cert.MaxPathLen = b.MaxPathLen /\ ~cert.MaxPathLenZero)
    /\ cert.MaxPathLenZero => (cert.IsCA /\ cert.MaxPathLen = 0)

C8_Witness ==
    /\ pc = "done"
    /\ ret[1].BasicConstraints # <<>>
    /\ ~ret[1].BasicConstraints[1].IsCA
    /\ ret[1].BasicConstraints[1].MaxPathLen > 0
    /\ cert.BasicConstraintsValid
    /\ cert.MaxPathLen = 0
    /\ ~cert.MaxPathLenZero

\* the template of the options declares a key usage whose bit mask is 0
DeclaresNoKeyUsage ==
    /\ opts.CertBuffer # <<>>
    /\ opts.CertBuffer[1].keyUsage # <<>>
    /\ ret # <<>>
    /\ ret[1].KeyUsage = 0

\* what NewCertificate returns for the template of the options without its
\* keyUsage key
WithoutKeyUsage ==
    [Decode([opts.CertBuffer[1] EXCEPT !.keyUsage = <<>>]).cert EXCEPT
        !.PublicKey = cr.PublicKey, !.PublicKeyAlgorithm = cr.PublicKeyAlgorithm]

\* C9, as stated: a template that declares a key usage of 0 (an empty list)
\* and the same template without the key are told apart after decoding and
\* assembly: they do not give the same Certificate and x509.Certificate.
C9_AsStated ==
    (pc = "done" /\ DeclaresNoKeyUsage) =>
        <<ret[1], cert>> # <<WithoutKeyUsage, GetCertificate(WithoutKeyUsage).cert>>

\* C10: when the signature check of the request fails, NewCertificate
\* returns before anything is decoded or set; whenever it returns an error
\* (of the signature, of the options or of the decoder) it returns no
\* certificate, and GetCertificate has nothing to run on.
C10_NoPartialCertificate ==
    /\ err # NoErr => (ret = <<>> /\ pc = "failed" /\ cert = ZeroX509Certificate)
    /\ ~cr.SignatureOK => (template = ZeroCertificate /\ cert = ZeroX509Certificate)
    /\ pc = "failed" => err # NoErr

C10_Witness ==
    /\ pc = "failed"
    /\ err = ErrUnmarshalingCertificate
    /\ template # ZeroCertificate
    /\ ret = <<>>

\* the positions of GetCertificate after cert is made
AfterNewX509Certificate == {"SANs", "panic"} \cup AfterSANs

\* NewCertificate has returned the certificate decoded from a template
ReturnedFromTemplate == ret # <<>> /\ opts.CertBuffer # <<>>

\* C11: the certificate NewCertificate returns for a template that decodes
\* carries the public key and the public-key algorithm of the request,
\* whatever the template holds, and GetCertificate copies these two values
\* into the certificate it assembles.
C11_RequestKeyWins ==
    /\ ReturnedFromTemplate =>
            /\ ret[1].PublicKey = cr.PublicKey
            /\ ret[1].PublicKeyAlgorithm = cr.PublicKeyAlgorithm
    /\ (ReturnedFromTemplate /\ pc \in AfterNewX509Certificate) =>
            /\ cert.PublicKey = cr.PublicKey
            /\ cert.PublicKeyAlgorithm = cr.PublicKeyAlgorithm

C11_Witness ==
    /\ pc = "done"
    /\ ReturnedFromTemplate
    /\ opts.CertBuffer[1].subject # <<>>
    /\ Decode(opts.CertBuffer[1]).cert.PublicKey = Nil
    /\ cr.PublicKey # Nil
    /\ ret[1].PublicKey = cr.PublicKey
    /\ cert.PublicKey = cr.PublicKey
    /\ cert.PublicKeyAlgorithm = cr.PublicKeyAlgorithm

\* the types SubjectAlternativeName.Set knows, as it compares them
SetTypes == {DNSType, EmailType, IPType, URIType, <<>>, AutoType}

\* C12, as stated: a SAN of a type that Set does not know gives an error
\* that is returned; no template makes GetCertificate panic.
C12_AsStated ==
    /\ pc # "panic"
    /\ (pc \in AfterSANs /\ \E i \in 1..Len(ret[1].SANs) :
                                ToLower(ret[1].SANs[i].Type) \notin SetTypes)
            => err # NoErr

(***************************************************************************)
(* CreateCertificate.  The call is a record of its arguments (the          *)
(* template as it is passed, the parent and the public key) and of what    *)
(* its collaborators do: whether the random source, the encoding of the    *)
(* public key, the signer and the parser succeed, and the serial number    *)
(* the random source gives.  template is the x509.Certificate the call     *)
(* completes in place.                                                     *)
(***************************************************************************)
ErrReadingRandom == "error reading random bytes"
ErrMarshalingPublicKey == "error marshaling public key"
ErrCreatingCertificate == "error creating certificate"
ErrParsingCertificate == "error parsing certificate"

\* generateSerialNumber: a positive integer of the random source: [err, sn]
generateSerialNumber(call) ==
    IF call.randomOK THEN [err |-> NoErr, sn |-> <<call.random>>]
    ELSE [err |-> ErrReadingRandom]

\* generateSubjectKeyID: the digest of the encoded public key: [err, id]
generateSubjectKeyID(call, pub) ==
    IF call.marshalOK THEN [err |-> NoErr, id |-> <<"sha1", pub>>]
    ELSE [err |-> ErrMarshalingPublicKey]

\* a completion that draws a serial number whether one is set or not
completeSerialNumberAlways(t, call) ==
    With(generateSerialNumber(call), LAMBDA r :
        IF r.err # NoErr THEN [err |-> r.err, template |-> t]
        ELSE [err |-> NoErr, template |-> [t EXCEPT !.SerialNumber = r.sn]])

\* if template.SerialNumber == nil { template.SerialNumber, err = ... }:
\* [err, template]
completeSerialNumber(t, call) ==
    IF t.SerialNumber = <<>>
    THEN With(generateSerialNumber(call), LAMBDA r :
            IF r.err # NoErr THEN [err |-> r.err, template |-> t]
            ELSE [err |-> NoErr, template |-> [t EXCEPT !.SerialNumber = r.sn]])
    ELSE [err |-> NoErr, template |-> t]

\* if template.SubjectKeyId == nil { template.SubjectKeyId, err = ... }:
\* [err, template]
completeSubjectKeyId(t, call) ==
    IF t.SubjectKeyId = <<>>
    THEN With(generateSubjectKeyID(call, call.pub), LAMBDA r :
            IF r.err # NoErr THEN [err |-> r.err, template |-> t]
            ELSE [err |-> NoErr, template |-> [t EXCEPT !.SubjectKeyId = r.id]])
    ELSE [err |-> NoErr, template |-> t]

\* x509.CreateCertificate: the call the signer receives, with the
\* certificate it signs when it succeeds
signCertificate(t, call) ==
    [template |-> t, parent |-> call.parent, pub |-> call.pub,
     asn1Data |-> IF call.signOK THEN <<[t EXCEPT !.PublicKey = call.pub]>> ELSE <<>>]

\* the serial number is completed; an error of the random source is returned
CompleteSerialNumber ==
    /\ pc = "CreateCertificate"
    /\ \E r \in {completeSerialNumber(template, opts)} :
          /\ template' = r.template
          /\ IF r.err = NoErr
             THEN pc' = "SubjectKeyId" /\ UNCHANGED <<ret, err>>
             ELSE ret' = <<>> /\ err' = r.err /\ pc' = "failed"
    /\ UNCHANGED <<cr, opts, cert, idx, ext, signer, mem>>

\* the subject key identifier is completed; an error of its generation is
\* returned
CompleteSubjectKeyId ==
    /\ pc = "SubjectKeyId"
    /\ \E r \in {completeSubjectKeyId(template, opts)} :
          /\ template' = r.template
          /\ IF r.err = NoErr
             THEN pc' = "sign" /\ UNCHANGED <<ret, err>>
             ELSE ret' = <<>> /\ err' = r.err /\ pc' = "failed"
    /\ UNCHANGED <<cr, opts, cert, idx, ext, signer, mem>>

\* the signer is called with the template, the parent and the public key;
\* its error is returned
SignCertificate ==
    /\ pc = "sign"
    /\ \E call \in {signCertificate(template, opts)} :
          /\ signer' = Append(signer, call)
          /\ IF call.asn1Data # <<>>
             THEN pc' = "parse" /\ UNCHANGED <<ret, err>>
             ELSE ret' = <<>> /\ err' = ErrCreatingCertificate /\ pc' = "failed"
    /\ UNCHANGED <<cr, opts, template, cert, idx, ext, mem>>

\* x509.ParseCertificate of what the signer gave; the certificate is
\* returned, or the error of the parser
ParseCertificate ==
    /\ pc = "parse"
    /\ IF opts.parseOK
       THEN ret' = signer[Len(signer)].asn1Data /\ err' = NoErr /\ pc' = "done"
       ELSE ret' = <<>> /\ err' = ErrParsingCertificate /\ pc' = "failed"
    /\ UNCHANGED <<cr, opts, template, cert, idx, ext, signer, mem>>

V_keyId == <<"0xAA", "0xBB">>

\* the templates handed to CreateCertificate: with and without a serial
\* number and a subject key identifier
FinalizerTemplates ==
    {[ZeroX509Certificate EXCEPT !.SerialNumber = sn, !.SubjectKeyId = id,
                                 !.DNSNames = d] :
        sn \in {<<>>} \cup {<<n>> : n \in 1..MaxSerial},
        id \in {<<>>, V_keyId}, d \in {<<>>, <<V_dns>>}}

\* the calls of CreateCertificate
FinalizerCalls ==
    {[template |-> t, parent |-> "parent", pub |-> "K",
      randomOK |-> randomOK, random |-> random, marshalOK |-> marshalOK,
      signOK |-> signOK, parseOK |-> parseOK] :
        t \in FinalizerTemplates, randomOK \in BOOLEAN, random \in 1..MaxSerial,
        marshalOK \in BOOLEAN, signOK \in BOOLEAN, parseOK \in BOOLEAN}

InitCreate ==
    /\ pc = "CreateCertificate"
    /\ opts \in FinalizerCalls
    /\ template = opts.template
    /\ cr = Nil /\ ret = <<>> /\ err = NoErr /\ cert = Nil /\ idx = 0 /\ ext = Nil
    /\ signer = <<>> /\ mem = <<>>

NextCreate ==
    \/ CompleteSerialNumber
    \/ CompleteSubjectKeyId
    \/ SignCertificate
    \/ ParseCertificate

SpecCreate == InitCreate /\ [][NextCreate]_vars

\* C13: CreateCertificate never replaces a serial number or a subject key
\* identifier that the template it is passed has set, and generates a value
\* only for the one that is unset, leaving every other field as it was; the
\* signer is called at most once, with both fields set, and it is not
\* called when the generation of either value fails.
C13_CompleteThenSign ==
    /\ opts.template.SerialNumber # <<>> =>
            template.SerialNumber = opts.template.SerialNumber
    /\ opts.template.SubjectKeyId # <<>> =>
            template.SubjectKeyId = opts.template.SubjectKeyId
    /\ [template EXCEPT !.SerialNumber = opts.template.SerialNumber,
                        !.SubjectKeyId = opts.template.SubjectKeyId] = opts.template
    /\ Len(signer) <= 1
    /\ \A i \in 1..Len(signer) :
            /\ signer[i].template.SerialNumber # <<>>
            /\ signer[i].template.SubjectKeyId # <<>>
            /\ signer[i].template = template
            /\ signer[i].parent = opts.parent
            /\ signer[i].pub = opts.pub
    /\ err \in {ErrReadingRandom, ErrMarshalingPublicKey} => signer = <<>>
    /\ (opts.template.SerialNumber = <<>> /\ ~opts.randomOK) => signer = <<>>
    /\ (opts.template.SubjectKeyId = <<>> /\ ~opts.marshalOK) => signer = <<>>
    /\ pc \in {"parse", "done"} => Len(signer) = 1

C13_Witness ==
    /\ pc = "done"
    /\ opts.template.SerialNumber = <<1>>
    /\ opts.random = 2
    /\ opts.randomOK
    /\ opts.template.SubjectKeyId = <<>>
    /\ Len(signer) = 1
    /\ signer[1].template.SerialNumber = <<1>>
    /\ signer[1].template.SubjectKeyId = <<"sha1", "K">>
    /\ ret # <<>>
    /\ ret[1].SerialNumber = <<1>>

\* C14, as stated: a serial number that is decoded is never negative, and
\* neither is the serial number GetCertificate sets on the certificate.
C14_AsStated ==
    /\ (template.SerialNumber # <<>>) => template.SerialNumber[1] >= 0
    /\ (pc = "done" /\ cert.SerialNumber # <<>>) => cert.SerialNumber[1] >= 0

\* the common names a certificate names its subject by: the CommonName of
\* its Subject and the values of the commonName attributes of its ExtraNames
SubjectCommonNames(c) ==
    (IF c.Subject.CommonName # <<>> THEN {c.Subject.CommonName} ELSE {})
        \cup {c.Subject.ExtraNames[i].Value.Bytes :
                i \in {j \in 1..Len(c.Subject.ExtraNames) :
                            c.Subject.ExtraNames[j].Type = oidCommonName}}

\* the SAN extension holds the one GeneralName of tag 2 for the name
IsSANExtensionOf(e, name) ==
    /\ e.ID = subjectAlternativeNameOID
    /\ e.Value = GeneralNamesOfStrings(nameTypeDNS, <<name>>)

\* the certificate carries that extension, or the encoder gives it for the
\* template the certificate is assembled from
CarriesSANExtensionOf(name) ==
    \/ \E i \in 1..Len(cert.ExtraExtensions) :
            IsSANExtensionOf([ID |-> cert.ExtraExtensions[i].Id,
                              Value |-> cert.ExtraExtensions[i].Value], name)
    \/ /\ createSubjectAltNameExtension(ret[1]).err = NoErr
       /\ IsSANExtensionOf(createSubjectAltNameExtension(ret[1]).ext, name)

\* C15, as stated: the template {subject: "CN=example.com", dnsNames:
\* ["example.com"]}, merged with a request of public key K, is assembled into
\* a certificate whose subject common name is "example.com", whose DNSNames
\* is ["example.com"] and whose SAN extension is the single GeneralName of
\* tag 2 holding "example.com".
C15_AsStated ==
    (pc = "done" /\ opts.CertBuffer = <<EndToEndDocument>>) =>
        /\ cert.PublicKey = cr.PublicKey
        /\ SubjectCommonNames(cert) = {V_cn}
        /\ cert.DNSNames = <<V_cn>>
        /\ CarriesSANExtensionOf(V_cn)

(***************************************************************************)
(* Subject.Set alone: it is called with a subject on a certificate that    *)
(* may hold a subject already.  opts is the call: the subject and the      *)
(* certificate as they are passed.                                         *)
(***************************************************************************)
V_country2 == <<"D", "E">>
V_text == <<"t">>

\* the longest list of countries of a subject
MaxValues == 2

\* the subjects: every list of countries, and the other attributes absent
\* or present (the locality with the street address and the province with
\* the postal code), some of the multi-valued ones with two values
SubjectInputs ==
    {[Country |-> country, Organization |-> o, OrganizationalUnit |-> ou,
      DomainController |-> dc, Locality |-> l, Province |-> p,
      StreetAddress |-> l \o l, PostalCode |-> p, SerialNumber |-> sn,
      CommonName |-> cn, Surname |-> sur, GivenName |-> g, Title |-> ti, UID |-> uid] :
        country \in SeqsUpTo({V_country, V_country2}, MaxValues),
        o \in {<<>>, <<V_org, V_org2>>}, ou \in {<<>>, <<V_org2, V_org>>},
        dc \in {<<>>, <<V_dns>>}, l \in {<<>>, <<V_text>>}, p \in {<<>>, <<V_text>>},
        sn \in {<<>>, V_text}, cn \in {<<>>, V_cn}, sur \in {<<>>, V_text},
        g \in {<<>>, V_text}, ti \in {<<>>, V_text}, uid \in {<<>>, V_text}}

\* the subjects the certificate holds before the call
HeldSubjects ==
    {ZeroPkixName,
     [ZeroPkixName EXCEPT !.CommonName = V_dns, !.Country = <<V_country>>,
                          !.ExtraNames = <<attributeOf(oidCommonName, V_dns)>>]}

InitSubject ==
    /\ pc = "Subject.Set"
    /\ opts \in {[s |-> s, c |-> [ZeroX509Certificate EXCEPT !.Subject = held,
                                                            !.DNSNames = <<V_dns>>]] :
                    s \in SubjectInputs, held \in HeldSubjects}
    /\ cert = opts.c
    /\ template = Nil
    /\ cr = Nil /\ ret = <<>> /\ err = NoErr /\ idx = 0 /\ ext = Nil
    /\ signer = <<>> /\ mem = <<>>

\* s.Set(c)
CallSubjectSet ==
    /\ pc = "Subject.Set"
    /\ cert' = SubjectSet(opts.s, cert)
    /\ pc' = "Subject.Set returned"
    /\ UNCHANGED <<cr, opts, template, ret, err, idx, ext, signer, mem>>

NextSubject == CallSubjectSet

SpecSubject == InitSubject /\ [][NextSubject]_vars

\* the attribute types in the order of the projection
SubjectOrder ==
    <<oidCountry, oidLocality, oidProvince, oidStreetAddress, oidPostalCode,
      oidOrganization, oidDC, oidOrganizationalUnit, oidTitle, oidGivenName,
      oidSurname, oidCommonName, oidSerialNumber, oidUID>>

OneIfSet(value) == IF value # <<>> THEN <<value>> ELSE <<>>

\* the values of a subject that are present, by attribute type
PresentValues(s) ==
    <<s.Country, s.Locality, s.Province, s.StreetAddress, s.PostalCode,
      s.Organization, s.DomainController, s.OrganizationalUnit,
      OneIfSet(s.Title), OneIfSet(s.GivenName), OneIfSet(s.Surname),
      OneIfSet(s.CommonName), OneIfSet(s.SerialNumber), OneIfSet(s.UID)>>

RECURSIVE SumOfLen(_, _)
SumOfLen(lists, n) == IF n = 0 THEN 0 ELSE SumOfLen(lists, n - 1) + Len(lists[n])

RankOf(type) == CHOOSE k \in 1..Len(SubjectOrder) : SubjectOrder[k] = type

\* the values of the entries of a type, in their order
ValuesOfType(names, type) ==
    LET selected == SelectSeq(names, LAMBDA a : a.Type = type) IN
    [i \in 1..Len(selected) |-> selected[i].Value.Bytes]

\* C16: after Subject.Set the ExtraNames of the subject hold one entry for
\* each value that is present, ordered by attribute type as country,
\* locality, province, streetAddress, postalCode, organization,
\* domainController, organizationalUnit, title, givenName, surname,
\* commonName, serialNumber, userID, the values of one attribute in the
\* order they were given; nothing of the subject held before remains, and
\* no other field of the certificate changes.
C16_SubjectProjection ==
    pc = "Subject.Set returned" =>
        LET names == cert.Subject.ExtraNames
            present == PresentValues(opts.s)
        IN  /\ Len(names) = SumOfLen(present, Len(present))
            /\ \A i \in 1..Len(names) : names[i].Type \in Range(SubjectOrder)
            /\ \A i, j \in 1..Len(names) :
                    i < j => RankOf(names[i].Type) <= RankOf(names[j].Type)
            /\ \A k \in 1..Len(SubjectOrder) :
                    ValuesOfType(names, SubjectOrder[k]) = present[k]
            /\ [cert.Subject EXCEPT !.ExtraNames = <<>>] = ZeroPkixName
            /\ cert.Subject = SubjectSet(opts.s, ZeroX509Certificate).Subject
            /\ [cert EXCEPT !.Subject = opts.c.Subject] = opts.c

C16_Witness ==
    /\ pc = "Subject.Set returned"
    /\ opts.c.Subject.ExtraNames # <<>>
    /\ opts.s.Country = <<V_country2, V_country>>
    /\ \A f \in DOMAIN opts.s : opts.s[f] # <<>>
    /\ Len(cert.Subject.ExtraNames) = 18
    /\ cert.Subject.ExtraNames[1] = attributeOf(oidCountry, V_country2)
    /\ cert.Subject.ExtraNames[2] = attributeOf(oidCountry, V_country)
    /\ cert.Subject.ExtraNames[18] = attributeOf(oidUID, V_text)
    /\ cert.Subject.CommonName = <<>>

(***************************************************************************)
(* KeyUsage.UnmarshalJSON alone: it is called with a JSON value on a       *)
(* KeyUsage that may hold bits already.  opts is the call: the value and   *)
(* the KeyUsage as it is passed; template holds the KeyUsage decoded into. *)
(***************************************************************************)
V_kuLowerCamel == <<"d", "i", "g", "i", "t", "a", "l", "S", "i", "g", "n", "a", "t", "u", "r", "e">>
V_kuUpper == <<"C", "E", "R", "T", "S", "I", "G", "N">>
V_kuMixed == <<"c", "R", "L", "_", "_", "S", "i", "g", "n", "_">>
V_kuSpace == <<"c", "e", "r", "t", " ", "s", "i", "g", "n">>

\* the longest list of names of a key usage
MaxNames == 2

\* names of the table as they are written, other spellings of them, and
\* names that are not of the table
KeyUsageNames ==
    {N_DigitalSignature, N_ContentCommitment, N_KeyEncipherment, N_DataEncipherment,
     N_KeyAgreement, N_CertSign, N_CRLSign, N_EncipherOnly, N_DecipherOnly,
     V_kuSnake, V_kuLowerCamel, V_kuUpper, V_kuMixed, V_kuBogus, V_kuSpace, <<>>}

KeyUsageInputs ==
    {JStrings(l) : l \in SeqsUpTo(KeyUsageNames, MaxNames)}
        \cup {JString(n) : n \in KeyUsageNames}
        \cup {JNumber(1), JArray(<<JString(N_CertSign), JNumber(1)>>)}

InitKeyUsage ==
    /\ pc = "KeyUsage.UnmarshalJSON"
    /\ opts \in {[data |-> d, k |-> k] : d \in KeyUsageInputs, k \in {0, 6}}
    /\ template = [ZeroCertificate EXCEPT !.KeyUsage = opts.k]
    /\ cr = Nil /\ ret = <<>> /\ err = NoErr /\ cert = Nil /\ idx = 0 /\ ext = Nil
    /\ signer = <<>> /\ mem = <<>>

\* k.UnmarshalJSON(data): k is written once the list of names is decoded
CallKeyUsageUnmarshalJSON ==
    /\ pc = "KeyUsage.UnmarshalJSON"
    /\ \E r \in {KeyUsageUnmarshalJSON(opts.data)} :
          /\ err' = r.err
          /\ template' = IF "k" \in DOMAIN r THEN [template EXCEPT !.KeyUsage = r.k]
                         ELSE template
    /\ pc' = "KeyUsage.UnmarshalJSON returned"
    /\ UNCHANGED <<cr, opts, ret, cert, idx, ext, signer, mem>>

NextKeyUsage == CallKeyUsageUnmarshalJSON

SpecKeyUsage == InitKeyUsage /\ [][NextKeyUsage]_vars

\* the table of the key usages: the names and the bits of x509.KeyUsage
KeyUsageBits ==
    <<[name |-> N_DigitalSignature, bit |-> 1], [name |-> N_ContentCommitment, bit |-> 2],
      [name |-> N_KeyEncipherment, bit |-> 4], [name |-> N_DataEncipherment, bit |-> 8],
      [name |-> N_KeyAgreement, bit |-> 16], [name |-> N_CertSign, bit |-> 32],
      [name |-> N_CRLSign, bit |-> 64], [name |-> N_EncipherOnly, bit |-> 128],
      [name |-> N_DecipherOnly, bit |-> 256]>>

\* the characters of a name that are not underscores
Letters(s) == SelectSeq(s, LAMBDA ch : ch # "_")

\* two names differ in nothing but the case of letters and underscores
SameName(a, b) ==
    /\ Len(Letters(a)) = Len(Letters(b))
    /\ \A i \in 1..Len(Letters(a)) :
            \/ Letters(a)[i] = Letters(b)[i]
            \/ /\ IsLetter(Letters(a)[i]) /\ IsLetter(Letters(b)[i])
               /\ ToLowerChar(Letters(a)[i]) = ToLowerChar(Letters(b)[i])

InKeyUsageTable(n) == \E j \in 1..Len(KeyUsageBits) : SameName(n, KeyUsageBits[j].name)

BitOf(n) ==
    KeyUsageBits[CHOOSE j \in 1..Len(KeyUsageBits) : SameName(n, KeyUsageBits[j].name)].bit

RECURSIVE SumOf(_)
SumOf(S) == IF S = {} THEN 0 ELSE LET x == CHOOSE x \in S : TRUE IN x + SumOf(S \ {x})

\* the names a JSON value lists: those of a string or of a list of strings
ListedNames == unmarshalMultiString(opts.data).ms

Reverse(s) == [i \in 1..Len(s) |-> s[Len(s) + 1 - i]]

\* decoding has the same outcome for two lists of names
SameDecoding(a, b) ==
    LET ra == KeyUsageUnmarshalJSON(JStrings(a))
        rb == KeyUsageUnmarshalJSON(JStrings(b))
    IN  ra.err = rb.err /\ (ra.err = NoErr => ra.k = rb.k)

\* C17: KeyUsage.UnmarshalJSON gives the OR of the bits of the names it is
\* given, each name matched against the table of nine without regard to the
\* case of letters and to underscores; the result is that of the names in
\* any order and with duplicates, and whatever the KeyUsage held before; a
\* name that is not of the table makes it fail with the unsupported-value
\* error.
C17_KeyUsageDecoding ==
    (pc = "KeyUsage.UnmarshalJSON returned"
        /\ unmarshalMultiString(opts.data).err = NoErr) =>
        LET ms == ListedNames IN
        /\ (\A i \in 1..Len(ms) : InKeyUsageTable(ms[i])) =>
                /\ err = NoErr
                /\ template.KeyUsage = SumOf({BitOf(ms[i]) : i \in 1..Len(ms)})
        /\ (\E i \in 1..Len(ms) : ~InKeyUsageTable(ms[i])) => err = ErrUnsupportedKeyUsage
        /\ SameDecoding(ms, Reverse(ms))
        /\ SameDecoding(ms, ms \o ms)
        /\ \A i \in 1..Len(ms) :
                /\ SameDecoding(<<ms[i]>>, <<ToLower(ms[i])>>)
                /\ SameDecoding(<<ms[i]>>, <<<<"_">> \o ms[i] \o <<"_">>>>)
                /\ \A n \in KeyUsageNames :
                        SameName(n, ms[i]) => SameDecoding(<<ms[i]>>, <<n>>)

C17_Witness ==
    /\ pc = "KeyUsage.UnmarshalJSON returned"
    /\ opts.data = JStrings(<<V_kuMixed, V_kuSnake>>)
    /\ opts.k = 6
    /\ err = NoErr
    /\ template.KeyUsage = 65

(***************************************************************************)
(* GetCertificate on the slices of Go.  A slice is the address of its      *)
(* backing array, a length and a capacity; mem holds the backing arrays,   *)
(* each as long as its capacity, and address 0 is nil.  The four lists     *)
(* GetCertificate copies from the template share their backing arrays      *)
(* with it, and append writes into a shared array when it has room.  The   *)
(* cells beyond the length of a slice hold the zero value, written <<>>.   *)
(* opts is the template as values; template and cert hold slices in        *)
(* DNSNames, EmailAddresses, IPAddresses and URIs; ret is the certificate   *)
(* the first call returned, GetCertificate being called twice.             *)
(***************************************************************************)
NilSlice == [arr |-> 0, len |-> 0, cap |-> 0]

\* the elements of a slice
Deref(s, m) == IF s.arr = 0 THEN <<>> ELSE SubSeq(m[s.arr], 1, s.len)

Fill(n) == [i \in 1..n |-> <<>>]

\* an append that, when the slice is not empty and has room, writes the
\* value over its last element
appendSliceOverLast(m, s, v) ==
    IF s.len < s.cap /\ s.len >= 1
    THEN [mem |-> [m EXCEPT ![s.arr][s.len] = v], slice |-> s]
    ELSE IF s.len < s.cap
    THEN [mem |-> [m EXCEPT ![s.arr][s.len + 1] = v],
          slice |-> [s EXCEPT !.len = s.len + 1]]
    ELSE With(IF s.cap = 0 THEN 1 ELSE 2 * s.cap, LAMBDA newcap :
            [mem |-> Append(m, Deref(s, m) \o <<v>> \o Fill(newcap - s.len - 1)),
             slice |-> [arr |-> Len(m) + 1, len |-> s.len + 1, cap |-> newcap]])

\* append(s, v): with room, v is written after the elements, into the array
\* the slice shares; without, the elements are copied to a new array of
\* twice the capacity: [mem, slice]
appendSlice(m, s, v) ==
    IF s.len < s.cap
    THEN [mem |-> [m EXCEPT ![s.arr][s.len + 1] = v],
          slice |-> [s EXCEPT !.len = s.len + 1]]
    ELSE With(IF s.cap = 0 THEN 1 ELSE 2 * s.cap, LAMBDA newcap :
            [mem |-> Append(m, Deref(s, m) \o <<v>> \o Fill(newcap - s.len - 1)),
             slice |-> [arr |-> Len(m) + 1, len |-> s.len + 1, cap |-> newcap]])

\* append(s, values...), from the i-th value on
RECURSIVE appendAll(_, _, _, _)
appendAll(m, s, values, i) ==
    IF i > Len(values) THEN [mem |-> m, slice |-> s]
    ELSE With(appendSlice(m, s, values[i]), LAMBDA r :
            appendAll(r.mem, r.slice, values, i + 1))

\* a record of slices as values
ViewOf(c, m) ==
    [c EXCEPT !.DNSNames = Deref(@, m), !.EmailAddresses = Deref(@, m),
              !.IPAddresses = Deref(@, m), !.URIs = Deref(@, m)]

\* san.Set(cert) on slices: what Set appends to each list is appended to
\* its slice: [panic, c, mem]
setOnSlices(san, c, m) ==
    With(ViewOf(c, m), LAMBDA before :
    With(SubjectAlternativeNameSet(san, before), LAMBDA r :
        IF r.panic THEN [panic |-> TRUE, c |-> c, mem |-> m]
        ELSE
        With(appendAll(m, c.DNSNames, r.c.DNSNames, Len(before.DNSNames) + 1),
             LAMBDA d :
        With(appendAll(d.mem, c.IPAddresses, r.c.IPAddresses,
                       Len(before.IPAddresses) + 1), LAMBDA i :
        With(appendAll(i.mem, c.EmailAddresses, r.c.EmailAddresses,
                       Len(before.EmailAddresses) + 1), LAMBDA e :
        With(appendAll(e.mem, c.URIs, r.c.URIs, Len(before.URIs) + 1), LAMBDA u :
            [panic |-> FALSE,
             c |-> [c EXCEPT !.DNSNames = d.slice, !.IPAddresses = i.slice,
                             !.EmailAddresses = e.slice, !.URIs = u.slice],
             mem |-> u.mem]))))))

\* the largest number of cells a decoded list has beyond its length
MaxSlack == 2

\* the slice of a decoded list whose backing array is the a-th
sliceOf(values, a, slack) ==
    IF values = <<>> THEN NilSlice
    ELSE [arr |-> a, len |-> Len(values), cap |-> Len(values) + slack]

\* the templates that are assembled twice: those the templates of SANs
\* decode to
SharedTemplates ==
    {[Decode(d).cert EXCEPT !.PublicKey = "K", !.PublicKeyAlgorithm = 1] :
        d \in SANDocuments}

InitShared ==
    /\ pc = "GetCertificate"
    /\ opts \in SharedTemplates
    /\ \E slack \in 0..MaxSlack :
          /\ mem = <<opts.DNSNames \o Fill(slack), opts.EmailAddresses \o Fill(slack),
                     opts.IPAddresses \o Fill(slack), opts.URIs \o Fill(slack)>>
          /\ template = [opts EXCEPT !.DNSNames = sliceOf(@, 1, slack),
                                     !.EmailAddresses = sliceOf(@, 2, slack),
                                     !.IPAddresses = sliceOf(@, 3, slack),
                                     !.URIs = sliceOf(@, 4, slack)]
    /\ cert = Nil
    /\ cr = Nil /\ ret = <<>> /\ err = NoErr /\ idx = 0 /\ ext = Nil
    /\ signer = <<>>

\* cert := new(x509.Certificate), and the four lists of the template, which
\* cert shares with it from here on
ShareLists ==
    /\ pc = "GetCertificate"
    /\ cert' = [ZeroX509Certificate EXCEPT
                    !.PublicKey = template.PublicKey,
                    !.PublicKeyAlgorithm = template.PublicKeyAlgorithm,
                    !.DNSNames = template.DNSNames,
                    !.EmailAddresses = template.EmailAddresses,
                    !.IPAddresses = template.IPAddresses,
                    !.URIs = template.URIs]
    /\ idx' = 1
    /\ pc' = "SANs"
    /\ UNCHANGED <<cr, opts, template, ret, err, ext, signer, mem>>

\* one turn of the loop over c.SANs
AppendSAN ==
    /\ pc = "SANs"
    /\ idx <= Len(template.SANs)
    /\ \E r \in {setOnSlices(template.SANs[idx], cert, mem)} :
          IF r.panic
          THEN pc' = "panic" /\ UNCHANGED <<cert, idx, mem>>
          ELSE cert' = r.c /\ mem' = r.mem /\ idx' = idx + 1 /\ pc' = "SANs"
    /\ UNCHANGED <<cr, opts, template, ret, err, ext, signer>>

\* the Set methods that follow the loop, and the return of cert; the first
\* call is followed by a second on the same template
ReturnCertificate ==
    /\ pc = "SANs"
    /\ idx > Len(template.SANs)
    /\ cert' = setAfterSANs(template, cert)
    /\ IF ret = <<>>
       THEN ret' = <<cert'>> /\ pc' = "GetCertificate"
       ELSE ret' = ret /\ pc' = "done"
    /\ UNCHANGED <<cr, opts, template, err, idx, ext, signer, mem>>

NextShared ==
    \/ ShareLists
    \/ AppendSAN
    \/ ReturnCertificate

SpecShared == InitShared /\ [][NextShared]_vars

\* C18: GetCertificate does not change the template: in every state of the
\* two calls every field of the template has the value it had before the
\* first, the appends of the SANs to the lists it shares included; the
\* certificate of the first call keeps its value during the second, and the
\* second returns a certificate equal to it.
C18_TemplateUnchanged ==
    /\ ViewOf(template, mem) = opts
    /\ ret # <<>> =>
            /\ ~GetCertificate(opts).panic
            /\ ViewOf(ret[1], mem) = GetCertificate(opts).cert
    /\ pc = "done" => ViewOf(cert, mem) = ViewOf(ret[1], mem)

C18_Witness ==
    /\ pc = "done"
    /\ template.DNSNames.cap > template.DNSNames.len
    /\ cert.DNSNames.arr = template.DNSNames.arr
    /\ cert.DNSNames.len = template.DNSNames.len + 2
    /\ ret[1].DNSNames = cert.DNSNames
    /\ Len(mem[template.DNSNames.arr]) = template.DNSNames.cap
    /\ mem[template.DNSNames.arr][template.DNSNames.len + 1] = V_dns
    /\ ViewOf(template, mem).DNSNames = <<V_dns2, V_dns3>>

(***************************************************************************)
(* The two consumers of an explicit SAN: SubjectAlternativeName.Set, which *)
(* switches on the type in lower case, and the loop of                     *)
(* createSubjectAltNameExtension, which switches on the type as written.   *)
(* They are compared on the templates that hold one explicit SAN and no    *)
(* shorthand list, so that what the encoder returned is about that SAN.    *)
(***************************************************************************)
OneExplicitSAN ==
    /\ pc = "sanDone"
    /\ Len(template.SANs) = 1
    /\ template.DNSNames = <<>> /\ template.EmailAddresses = <<>>
    /\ template.URIs = <<>> /\ template.IPAddresses = <<>>

\* Set does not panic on the SAN and sets it as the type
SetClassifiesAs(san, type) ==
    /\ ~SubjectAlternativeNameSet(san, ZeroX509Certificate).panic
    /\ EffectiveType(san) = type

\* the encoder returned one GeneralName of the tag
EncoderEmitted(tag) ==
    /\ err = NoErr
    /\ Len(ext.Value) = 1
    /\ ext.Value[1].Class = 2
    /\ ext.Value[1].Tag = tag

\* the encoder returned no GeneralName and no error for an address that
\* does not parse
EncoderDroppedInvalidIP(san) ==
    /\ err = NoErr
    /\ ext.Value = <<>>
    /\ ParseIP(san.Value) = <<>>

\* the encoder refused the type of the SAN
EncoderRejectedType == err \in {ErrUnsupportedSAN, ErrUnimplementedSAN}

\* C19, as stated: Set takes an explicit SAN for a dns, email, ip or uri
\* name exactly when createSubjectAltNameExtension gives a GeneralName of
\* tag 2, 1, 7 or 6 for it (or nothing, for an ip that does not parse), and
\* Set panics on a SAN exactly when the encoder refuses its type.
C19_AsStated ==
    OneExplicitSAN =>
        LET san == template.SANs[1] IN
        /\ SetClassifiesAs(san, DNSType) <=> EncoderEmitted(nameTypeDNS)
        /\ SetClassifiesAs(san, EmailType) <=> EncoderEmitted(nameTypeEmail)
        /\ SetClassifiesAs(san, URIType) <=> EncoderEmitted(nameTypeURI)
        /\ SetClassifiesAs(san, IPType) <=>
                EncoderEmitted(nameTypeIP) \/ EncoderDroppedInvalidIP(san)
        /\ SubjectAlternativeNameSet(san, ZeroX509Certificate).panic
                <=> EncoderRejectedType

====
